---- MODULE Spec2Model ----
(***************************************************************************)
(* Canvas-pipeline: identity resolution (build_identity_map.py), the       *)
(* incremental dimensional build (build_curated.py) and the raw loader     *)
(* (load_raw.py), over one SQL Server database.                            *)
(*                                                                         *)
(* Timestamps are integers 1..MaxTime, Python None / SQL NULL is NULL.     *)
(* Strings that the code inspects character by character (emails) are      *)
(* sequences of one-character strings.                                     *)
(***************************************************************************)
EXTENDS Integers, Sequences, FiniteSets, TLC

\* ---------------------------------------------------------------- bounds
NumUsers == 3
NumCourses == 2
NumSubs == 2
MaxTime == 2
MaxUserIngest == 3
MaxResolverRuns == 3
MaxRuns == 2
MaxLoads == 3

UserIds == 1..NumUsers
CourseIds == 1..NumCourses
SubIds == 1..NumSubs
Times == 1..MaxTime

\* Python None / SQL NULL: a value that is no id, no timestamp and no bit
NULL == -2

\* ---------------------------------------------------------------- sequences
RECURSIVE SetToSortedSeq(_)
\* sorted(set(ids)): ascending sequence of the distinct elements
SetToSortedSeq(S) ==
  IF S = {} THEN <<>>
  ELSE LET m == CHOOSE x \in S : \A y \in S : x <= y
       IN <<m>> \o SetToSortedSeq(S \ {m})

Range(s) == {s[i] : i \in 1..Len(s)}

\* all orders in which a SELECT without ORDER BY may return the rows of S
Orders(S) == {s \in [1..Cardinality(S) -> S] : Range(s) = S}

\* ---------------------------------------------------------------- emails
Whitespace == {" "}

\* str.lower() on one character
LowerChar(c) ==
  CASE c = "A" -> "a"
    [] c = "B" -> "b"
    [] c = "X" -> "x"
    [] c = "C" -> "c"
    [] OTHER -> c

RECURSIVE LStrip(_)
LStrip(s) == IF s # <<>> /\ Head(s) \in Whitespace THEN LStrip(Tail(s)) ELSE s

RECURSIVE RStrip(_)
RStrip(s) ==
  IF s # <<>> /\ s[Len(s)] \in Whitespace THEN RStrip(SubSeq(s, 1, Len(s) - 1)) ELSE s

\* str.strip()
Strip(s) == RStrip(LStrip(s))

\* str.lower()
Lower(s) == [i \in 1..Len(s) |-> LowerChar(s[i])]

\* one character of the class [^\s@]
Plain(c) == c \notin Whitespace /\ c # "@"

\* EMAIL_RE = ^[^\s@]+@[^\s@]+\.[^\s@]+$
EMAIL_RE(s) ==
  \E i \in 1..Len(s) : \E j \in 1..Len(s) :
    /\ 1 < i /\ i + 1 < j /\ j < Len(s)
    /\ s[i] = "@" /\ s[j] = "."
    /\ \A k \in 1..Len(s) : k # i => Plain(s[k])

\* raw_payload values build_identity_map.main decodes; load_raw.py stores
\* the kind dict only
\*   null       SQL NULL
\*   dict       JSON object whose only string value is under the key "email"
\*              (email = <<>>: the key is absent or empty)
\*   text       text that json.loads rejects
\*   jstr       a JSON string literal
\*   num        a JSON number
DictPayload(e) == [kind |-> "dict", email |-> e]

\* find_email on a str
FindEmailStr(s) == IF EMAIL_RE(Strip(s)) THEN Strip(s) ELSE <<>>

\* main's payload decoding followed by find_email; <<>> stands for None
find_email(p) ==
  CASE p.kind = "null" -> <<>>
    [] p.kind = "num" -> <<>>
    [] p.kind = "dict" -> FindEmailStr(p.email)
    [] p.kind = "jstr" -> FindEmailStr(p.email)
    [] p.kind = "text" -> FindEmailStr(p.email)
    [] OTHER -> <<>>

\* normalize_email without the lower-casing
normalize_email_nolower(e) == IF e = <<>> THEN <<>> ELSE Strip(e)

\* normalize_email; <<>> stands for None
normalize_email(e) == IF e = <<>> THEN <<>> ELSE Lower(Strip(e))

\* ---------------------------------------------------------------- state
VARIABLES
  now,          \* wall clock (SYSUTCDATETIME / utcnow)
  rawUsers,     \* raw.canvas_users: id -> raw_payload
  rawCourses,   \* raw.canvas_courses: id -> [raw_payload, ingested_at]
  rawSubs,      \* raw.canvas_submissions: id -> [raw_payload, ingested_at]
  idMap,        \* cur.person_identity_map (PRIMARY KEY canvas_user_id)
  dq,           \* cur.person_identity_map_dq
  res,          \* build_identity_map.main: position and locals of the last run
  dimStudent,   \* cur.dim_student
  identStudent, \* last IDENTITY value of cur.dim_student.gies_person_id
  dimCourse,    \* cur.dim_course
  identCourse,  \* last IDENTITY value of cur.dim_course.course_key
  fact,         \* cur.fact_submission
  watermark,    \* meta.watermark: source_name -> last_updated_at
  lock,         \* table -> the run whose MERGE holds its range locks, 0 if none
  run,          \* build_curated.main: position and locals of each run
  bornStudent,  \* history: the dim_student rows as they were inserted
  bornCourse,   \* history: the dim_course rows as they were inserted
  last,         \* history: the outcome of the run that ended last
  runsSince,    \* history: runs started since the inputs last changed, at most 2
  nLoads,       \* number of loader upserts so far
  nResolver,    \* number of resolver runs so far
  nRuns,        \* number of pipeline runs started so far
  jobRun,       \* meta.job_run
  dqResult,     \* meta.dq_check_result
  job,          \* run_checks.main: position and locals of the job
  ld            \* load_raw.load_jsonl_to_db: the file, the table and the locals

vars == <<now, rawUsers, rawCourses, rawSubs, idMap, dq, res, dimStudent, identStudent,
          dimCourse, identCourse, fact, watermark, lock, run, bornStudent, bornCourse,
          last, runsSince, nLoads, nResolver, nRuns, jobRun, dqResult, job, ld>>

identityVars == <<idMap, dq, res>>
curatedVars == <<dimStudent, identStudent, dimCourse, identCourse, fact, watermark, lock,
                 run, bornStudent, bornCourse, last>>
counters == <<nLoads, nResolver, nRuns>>
jobVars == <<jobRun, dqResult, job>>

\* the concurrent runs of build_curated.py
Procs == {1, 2}

\* ---------------------------------------------------------------- raw loader
E1 == <<"a", "@", "x", ".", "c">>
E2 == <<"A", "@", "X", ".", "c", " ">>
E3 == <<"b", "@", "x", ".", "c">>
E4 == <<"a", "x">>

\* the user documents the loader is fed
UserPayloads == {DictPayload(E1), DictPayload(E2), DictPayload(E3), DictPayload(E4)}

\* a JSON value that int() rejects, such as "abc"
BAD == -1

\* raw_payload values of raw.canvas_courses
\*   dict       a JSON object; name stands for the attributes that are stored
\*              as they are, account_id is NULL (absent or null), BAD or an
\*              integer
\*   malformed  text that json.loads rejects
\*   nondict    a JSON value that is not an object
CourseDocOf(n, account_id) == [kind |-> "dict", name |-> n, account_id |-> account_id]
CourseDoc(n) == CourseDocOf(n, NULL)

\* a timestamp with a UTC offset: t + TZ stands for the instant t written with
\* "Z" or "+00:00", t alone for the same text without an offset
TZ == 100
Aware(t) == t + TZ

\* raw_payload values of raw.canvas_submissions
\*   user_id, course_id      NULL (absent or null), BAD, or an integer
\*   due_at, submitted_at    NULL (absent, null or ""), BAD (not an ISO
\*                           timestamp), t (no offset) or Aware(t)
\*   late, missing           "true", "false" (JSON booleans), "none" (absent or
\*                           null) or "other" (any other JSON value)
\*   assignment_id, score,   NULL (absent, null or a number) or BAD (a value
\*   attempt                 that int() or float() rejects)
SubDocOf(u, c, due, sub, late, missing) ==
  [kind |-> "dict", user_id |-> u, course_id |-> c, due_at |-> due,
   submitted_at |-> sub, late |-> late, missing |-> missing,
   assignment_id |-> NULL, score |-> NULL, attempt |-> NULL]
SubDoc(u, c) == SubDocOf(u, c, NULL, NULL, "none", "none")

\* the documents load_raw.py is fed for raw.canvas_submissions
SubPayloads ==
  {SubDoc(1, 1), SubDoc(2, 1), SubDoc(NULL, 2), SubDoc(BAD, 1),
   [SubDoc(1, 1) EXCEPT !.attempt = BAD]}

\* upsert_record: UPDATE ... WHERE id = @id; IF @@ROWCOUNT = 0 INSERT
upsert_record(table, id, row) ==
  IF id \in DOMAIN table THEN [table EXCEPT ![id] = row] ELSE table @@ (id :> row)

\* upsert_record on a table with an ingested_at column: the UPDATE sets
\* raw_payload only, the INSERT leaves ingested_at to its default, the clock
upsert_raw(table, id, payload) ==
  upsert_record(table, id,
    [raw_payload |-> payload,
     ingested_at |-> IF id \in DOMAIN table THEN table[id].ingested_at ELSE now])

\* load_raw.py on one line of canvas_users.jsonl, a document of docs for an id of ids
IngestUserOf(ids, docs) ==
  /\ \E id \in ids : \E p \in docs :
       rawUsers' = upsert_record(rawUsers, id, p)
  /\ runsSince' = 0
  /\ UNCHANGED <<now, rawCourses, rawSubs, identityVars, curatedVars>>


\* load_raw.py on one line of canvas_courses.jsonl
IngestCourseOf(ids, docs) ==
  /\ \E id \in ids : \E p \in docs :
       rawCourses' = upsert_raw(rawCourses, id, p)
  /\ runsSince' = 0
  /\ UNCHANGED <<now, rawUsers, rawSubs, identityVars, curatedVars>>

\* load_raw.py on one line of canvas_submissions.jsonl
IngestSubOf(ids, docs) ==
  /\ \E id \in ids : \E p \in docs :
       rawSubs' = upsert_raw(rawSubs, id, p)
  /\ runsSince' = 0
  /\ UNCHANGED <<now, rawUsers, rawCourses, identityVars, curatedVars>>

\* the clock advances
Tick ==
  /\ now < MaxTime
  /\ now' = now + 1
  /\ UNCHANGED <<rawUsers, rawCourses, rawSubs, identityVars, curatedVars, runsSince>>

\* ---------------------------------------------------------------- identity resolver
RECURSIVE BuildEmailMap(_, _, _)
\* the loop over rows: email_map.setdefault(email_norm, []).append(int(row_id))
BuildEmailMap(rows, i, email_map) ==
  IF i > Len(rows) THEN email_map
  ELSE LET email_norm == normalize_email(find_email(rows[i].raw_payload))
           id == rows[i].id
       IN BuildEmailMap(rows, i + 1,
            IF email_norm = <<>> THEN email_map
            ELSE IF email_norm \in DOMAIN email_map
                 THEN [email_map EXCEPT ![email_norm] = Append(@, id)]
                 ELSE email_map @@ (email_norm :> <<id>>))

\* ids taken in read order, without sorted(set(...))
ids_unsorted(ids) == ids

\* ids_sorted = sorted(set(ids))
ids_sorted(ids) == SetToSortedSeq(Range(ids))

\* primaries.append((primary, email_norm, "email_exact", 100))
Primaries(email_map) ==
  {[canvas_user_id |-> ids_sorted(email_map[e])[1], email_normalized |-> e,
    match_method |-> "email_exact", match_confidence |-> 100] : e \in DOMAIN email_map}

\* dq_rows.append((dup_id, email_norm, "duplicate_email", "warn", primary))
DqRows(email_map) ==
  UNION {
    LET s == ids_sorted(email_map[e])
    IN {[canvas_user_id |-> s[k], email_normalized |-> e, reason |-> "duplicate_email",
         severity |-> "warn", primary_canvas_user_id |-> s[1]] : k \in 2..Len(s)}
    : e \in DOMAIN email_map}

\* DELETE FROM <table> WHERE canvas_user_id = ?   (one execution per id)
DeleteByIds(table, ids) == {r \in table : r.canvas_user_id \notin ids}

\* build_identity_map.main has not run
NoResolverRun == [pc |-> "idle", rows |-> <<>>, primaries |-> {}, dq_rows |-> {}]

\* build_identity_map.main, lines 100-135: SELECT id, raw_payload FROM
\* raw.canvas_users, then email_map, primaries and dq_rows computed from the
\* rows fetched
ResolverRead ==
  /\ res.pc = "idle"
  /\ \E order \in Orders(DOMAIN rawUsers) :
       LET rows == [i \in 1..Len(order) |-> [id |-> order[i], raw_payload |-> rawUsers[order[i]]]]
           email_map == BuildEmailMap(rows, 1, <<>>)
       IN res' = [pc |-> "write", rows |-> rows, primaries |-> Primaries(email_map),
                  dq_rows |-> DqRows(email_map)]
  /\ UNCHANGED <<now, rawUsers, rawCourses, rawSubs, idMap, dq, curatedVars, runsSince>>

\* build_identity_map.main, lines 137-176: the DELETEs and INSERTs of the
\* primaries and dq_rows computed from the rows fetched, and conn.commit()
ResolverWrite ==
  /\ res.pc = "write"
  /\ idMap' = DeleteByIds(idMap, {p.canvas_user_id : p \in res.primaries}) \cup res.primaries
  /\ dq' = DeleteByIds(dq, {d.canvas_user_id : d \in res.dq_rows}) \cup res.dq_rows
  /\ res' = [res EXCEPT !.pc = "idle"]
  /\ runsSince' = 0
  /\ UNCHANGED <<now, rawUsers, rawCourses, rawSubs, curatedVars>>

\* ---------------------------------------------------------------- watermark
\* get_last_watermark: None when there is no row, else the stored value
get_last_watermark(wm, source_name) ==
  IF source_name \in DOMAIN wm THEN wm[source_name] ELSE NULL

\* upsert_watermark: UPDATE ... WHERE source_name = ?; IF @@ROWCOUNT = 0 INSERT
upsert_watermark(wm, source_name, last_updated_at) ==
  upsert_record(wm, source_name, last_updated_at)

\* ---------------------------------------------------------------- reads
\* the ids with ingested_at > since
SelectSinceStrict(table, since) ==
  {id \in DOMAIN table : since = NULL \/ table[id].ingested_at > since}

\* SELECT ... FROM raw.<table> [WHERE ingested_at >= ?]: the ids selected
SelectSince(table, since) ==
  {id \in DOMAIN table : since = NULL \/ table[id].ingested_at >= since}

Max(S) == CHOOSE x \in S : \A y \in S : x >= y

Min(S) == CHOOSE x \in S : \A y \in S : x <= y

\* the earliest ingested_at of the rows read instead of the latest
MinIngested(table, ids) ==
  IF ids = {} THEN NULL ELSE Min({table[id].ingested_at : id \in ids})

\* max_ing over the rows read; None when no row was read
MaxIngested(table, ids) ==
  IF ids = {} THEN NULL ELSE Max({table[id].ingested_at : id \in ids})

\* read_person_identity_map
read_person_identity_map(map, t) ==
  {[canvas_user_id |-> r.canvas_user_id, email_normalized |-> r.email_normalized,
    match_method |-> r.match_method, match_confidence |-> r.match_confidence,
    updated_at |-> t] : r \in map}

\* load_student_key_map: canvas_user_id -> gies_person_id
load_student_key_map(dim) ==
  [k \in {r.canvas_user_id : r \in dim} |->
     (CHOOSE r \in dim : r.canvas_user_id = k).gies_person_id]

\* the course key map as it is read before cur.dim_course has any row
load_course_key_map_early(dim) == <<>>

\* load_course_key_map: canvas_course_id -> course_key
load_course_key_map(dim) ==
  [k \in {r.canvas_course_id : r \in dim} |->
     (CHOOSE r \in dim : r.canvas_course_id = k).course_key]

\* one iteration of the loop of read_raw_courses
ParseCourse(id, rec, t) ==
  CASE rec.raw_payload.kind = "malformed" -> [status |-> "skip"]
    [] rec.raw_payload.kind = "nondict" -> [status |-> "raise"]
    [] rec.raw_payload.account_id = BAD -> [status |-> "raise"]
    [] OTHER ->
       [status |-> "row",
        row |-> [canvas_course_id |-> id, name |-> rec.raw_payload.name, updated_at |-> t]]

\* read_raw_courses on the rows selected
read_raw_courses(table, ids, t) ==
  LET parsed == [id \in ids |-> ParseCourse(id, table[id], t)]
  IN [raised |-> \E id \in ids : parsed[id].status = "raise",
      rows |-> {parsed[id].row : id \in {x \in ids : parsed[x].status = "row"}},
      max_ing |-> MaxIngested(table, ids)]

\* a lookup that answers with the value of some key of the map
MapGetAny(m, k) ==
  IF DOMAIN m = {} THEN NULL ELSE m[CHOOSE x \in DOMAIN m : TRUE]

\* dict.get on a key map; None when the key is absent
MapGet(m, k) == IF k \in DOMAIN m THEN m[k] ELSE NULL

\* parse_dt: None for an absent or empty value and for one that
\* datetime.fromisoformat rejects
parse_dt(s) == IF s = NULL \/ s = BAD THEN NULL ELSE s

\* submitted_at <= due_at is defined: both carry an offset or neither does
Comparable(a, b) == (a > TZ) = (b > TZ)

\* on_time_flag with False where the inputs say nothing
on_time_flag_default0(due_at, submitted_at, late, missing) ==
  IF due_at # NULL /\ submitted_at # NULL
  THEN IF submitted_at <= due_at THEN 1 ELSE 0
  ELSE 0

\* on_time_flag, lines 442-449
on_time_flag(due_at, submitted_at, late, missing) ==
  IF due_at # NULL /\ submitted_at # NULL
  THEN IF submitted_at <= due_at THEN 1 ELSE 0
  ELSE IF late = "true" \/ missing = "true" THEN 0 ELSE NULL

\* the coercion with 0 for every value but True
late_flag_default0(v) == IF v = "true" THEN 1 ELSE 0

\* 1 if late is True else 0 if late is False else None
late_flag(v) == IF v = "true" THEN 1 ELSE IF v = "false" THEN 0 ELSE NULL

\* the record makes the loop raise: jget on a value that is no object, int()
\* or float() on a value that is no number (user_id, course_id, assignment_id,
\* score, attempt), <= between timestamps with and without offset
Raises(d) ==
  \/ d.kind = "nondict"
  \/ d.user_id = BAD \/ d.course_id = BAD
  \/ d.assignment_id = BAD \/ d.score = BAD \/ d.attempt = BAD
  \/ /\ parse_dt(d.due_at) # NULL /\ parse_dt(d.submitted_at) # NULL
     /\ ~Comparable(parse_dt(d.submitted_at), parse_dt(d.due_at))

\* the tuple appended to out
SubRow(id, d, gies_person_id, course_key, t) ==
  [canvas_submission_id |-> id,
   gies_person_id |-> gies_person_id,
   course_key |-> course_key,
   canvas_user_id |-> d.user_id,
   canvas_course_id |-> d.course_id,
   submitted_at |-> parse_dt(d.submitted_at),
   late_flag |-> late_flag(d.late),
   missing_flag |-> late_flag(d.missing),
   due_at |-> parse_dt(d.due_at),
   on_time_flag |-> on_time_flag(parse_dt(d.due_at), parse_dt(d.submitted_at),
                                 d.late, d.missing),
   updated_at |-> t]

\* one iteration of the loop of read_raw_submissions, an orphan being dropped
ParseSubmissionDropOrphan(id, rec, student_key_map, course_key_map, t) ==
  LET d == rec.raw_payload
  IN CASE d.kind = "malformed" -> [status |-> "skip", skip_user |-> 0, skip_course |-> 0]
       [] Raises(d) -> [status |-> "raise", skip_user |-> 0, skip_course |-> 0]
       [] (d.user_id # NULL /\ MapGet(student_key_map, d.user_id) = NULL)
          \/ (d.course_id # NULL /\ MapGet(course_key_map, d.course_id) = NULL) ->
            [status |-> "skip", skip_user |-> 0, skip_course |-> 0]
       [] OTHER ->
            [status |-> "row", skip_user |-> 0, skip_course |-> 0,
             row |-> SubRow(id, d, MapGet(student_key_map, d.user_id),
                            MapGet(course_key_map, d.course_id), t)]

\* one iteration of the loop of read_raw_submissions
ParseSubmission(id, rec, student_key_map, course_key_map, t) ==
  LET d == rec.raw_payload
  IN CASE d.kind = "malformed" -> [status |-> "skip", skip_user |-> 0, skip_course |-> 0]
       [] Raises(d) -> [status |-> "raise", skip_user |-> 0, skip_course |-> 0]
       [] OTHER ->
            LET gies_person_id ==
                  IF d.user_id # NULL THEN MapGet(student_key_map, d.user_id) ELSE NULL
                course_key ==
                  IF d.course_id # NULL THEN MapGet(course_key_map, d.course_id) ELSE NULL
            IN [status |-> "row",
                skip_user |-> IF d.user_id # NULL /\ gies_person_id = NULL THEN 1 ELSE 0,
                skip_course |-> IF d.course_id # NULL /\ course_key = NULL THEN 1 ELSE 0,
                row |-> SubRow(id, d, gies_person_id, course_key, t)]

RECURSIVE SumOver(_, _)
\* the sum of f[x] over the elements x of S
SumOver(f, S) ==
  IF S = {} THEN 0
  ELSE LET x == CHOOSE y \in S : TRUE IN f[x] + SumOver(f, S \ {x})

\* read_raw_submissions on the rows selected
read_raw_submissions(table, ids, student_key_map, course_key_map, t) ==
  LET parsed == [id \in ids |->
                   ParseSubmission(id, table[id], student_key_map, course_key_map, t)]
  IN [raised |-> \E id \in ids : parsed[id].status = "raise",
      rows |-> {parsed[id].row : id \in {x \in ids : parsed[x].status = "row"}},
      skip_user |-> SumOver([id \in ids |-> parsed[id].skip_user], ids),
      skip_course |-> SumOver([id \in ids |-> parsed[id].skip_course], ids),
      max_ing |-> MaxIngested(table, ids)]

\* ---------------------------------------------------------------- MERGE
\* a MERGE without the HOLDLOCK hint
NOHOLDLOCK == FALSE

\* MERGE ... WITH (HOLDLOCK): the range locks taken while matching are held
\* until the transaction commits
HOLDLOCK == TRUE

Tables == {"cur.dim_student", "cur.dim_course", "cur.fact_submission"}

\* the keys of the staged rows that have a row in the target
MatchKeys(srcKeys, tgtKeys) == srcKeys \cap tgtKeys

\* WHEN MATCHED on cur.dim_student, the row being deleted and inserted again
StudentMatchedReinsert(t, s, ident) ==
  [t EXCEPT !.gies_person_id = ident + t.gies_person_id,
            !.email_normalized = s.email_normalized,
            !.match_method = s.match_method,
            !.match_confidence = s.match_confidence,
            !.updated_at = s.updated_at]

\* WHEN MATCHED THEN UPDATE SET on cur.dim_student
StudentMatched(t, s, ident) ==
  [t EXCEPT !.email_normalized = s.email_normalized,
            !.match_method = s.match_method,
            !.match_confidence = s.match_confidence,
            !.updated_at = s.updated_at]

\* WHEN NOT MATCHED BY SOURCE THEN DELETE
StudentNotInSourceDeleted(rest) == {}

\* the rows of cur.dim_student that match no staged row: the MERGE has no
\* WHEN NOT MATCHED BY SOURCE clause
StudentNotInSource(rest) == rest

\* WHEN NOT MATCHED THEN INSERT on cur.dim_student, every row with one key
StudentInsertedSameKey(s, ident, i) ==
  [gies_person_id |-> ident + 1, canvas_user_id |-> s.canvas_user_id,
   email_normalized |-> s.email_normalized, match_method |-> s.match_method,
   match_confidence |-> s.match_confidence, updated_at |-> s.updated_at]

\* WHEN NOT MATCHED THEN INSERT on cur.dim_student: the i-th row inserted
StudentInserted(s, ident, i) ==
  [gies_person_id |-> ident + i, canvas_user_id |-> s.canvas_user_id,
   email_normalized |-> s.email_normalized, match_method |-> s.match_method,
   match_confidence |-> s.match_confidence, updated_at |-> s.updated_at]

\* WHEN MATCHED on cur.dim_course, the row being deleted and inserted again
CourseMatchedReinsert(t, s, ident) ==
  [t EXCEPT !.course_key = ident + t.course_key, !.name = s.name,
            !.updated_at = s.updated_at]

\* WHEN MATCHED THEN UPDATE SET on cur.dim_course
CourseMatched(t, s, ident) ==
  [t EXCEPT !.name = s.name, !.updated_at = s.updated_at]

\* WHEN NOT MATCHED THEN INSERT on cur.dim_course: the i-th row inserted
CourseInserted(s, ident, i) ==
  [course_key |-> ident + i, canvas_course_id |-> s.canvas_course_id,
   name |-> s.name, updated_at |-> s.updated_at]

\* WHEN MATCHED THEN UPDATE SET on cur.fact_submission
FactMatched(t, s) ==
  [t EXCEPT !.gies_person_id = s.gies_person_id, !.course_key = s.course_key,
            !.canvas_user_id = s.canvas_user_id, !.canvas_course_id = s.canvas_course_id,
            !.submitted_at = s.submitted_at, !.late_flag = s.late_flag,
            !.missing_flag = s.missing_flag, !.due_at = s.due_at,
            !.on_time_flag = s.on_time_flag, !.updated_at = s.updated_at]

\* WHEN NOT MATCHED THEN INSERT on cur.fact_submission
FactInserted(s) ==
  [canvas_submission_id |-> s.canvas_submission_id, gies_person_id |-> s.gies_person_id,
   course_key |-> s.course_key, canvas_user_id |-> s.canvas_user_id,
   canvas_course_id |-> s.canvas_course_id, submitted_at |-> s.submitted_at,
   late_flag |-> s.late_flag, missing_flag |-> s.missing_flag, due_at |-> s.due_at,
   on_time_flag |-> s.on_time_flag, updated_at |-> s.updated_at]

\* the staged row with natural key k
StagedStudent(src, k) == CHOOSE s \in src : s.canvas_user_id = k
StagedCourse(src, k) == CHOOSE s \in src : s.canvas_course_id = k
StagedSub(src, k) == CHOOSE s \in src : s.canvas_submission_id = k

\* ---------------------------------------------------------------- staging
\* one staging table shared by every run
StagingShared(p) == 1

\* #stg_student, #stg_course and #stg_submission are temporary tables of the
\* session: the run p sees its own
StagingOf(p) == p

\* if not rows: return; else DROP TABLE if it exists, CREATE TABLE and the
\* chunked INSERTs: the staging table holds the batch and nothing else
Staged(old, rows) == IF rows = {} THEN old ELSE rows

\* ---------------------------------------------------------------- build_curated.main
InitRun ==
  [pc |-> "idle", override |-> NULL, since_ingested_at |-> NULL,
   student_rows |-> {}, student_key_map |-> <<>>,
   course_read |-> {}, course_rows |-> {}, max_course_ing |-> NULL,
   course_key_map |-> <<>>,
   sub_read |-> {}, sub_rows |-> {}, skip_user |-> 0, skip_course |-> 0,
   max_sub_ing |-> NULL, fact_seen |-> {}, matched |-> {}, error |-> "none",
   stg_student |-> {}, stg_course |-> {}, stg_submission |-> {}]

\* the key assignments and row counts of the curated tables
Outcome(ds, dc, f) ==
  [students |-> {<<r.canvas_user_id, r.gies_person_id>> : r \in ds},
   courses |-> {<<r.canvas_course_id, r.course_key>> : r \in dc},
   facts |-> {r.canvas_submission_id : r \in f},
   counts |-> <<Cardinality(ds), Cardinality(dc), Cardinality(f)>>]

\* history: what the run of p that ends in this step leaves behind
EndRun(p, ds, dc, f) ==
  last' = [ended |-> TRUE, override |-> run[p].override, outcome |-> Outcome(ds, dc, f),
           error |-> run'[p].error, since |-> run[p].since_ingested_at,
           before |-> last.error]

\* the later of the override and the stored watermark
SinceIngestedAtLater(override, wm) ==
  LET stored == get_last_watermark(wm, "raw.canvas_submissions")
  IN IF override = NULL THEN stored
     ELSE IF stored # NULL /\ stored > override THEN stored ELSE override

\* main, lines 574-579: --since-ingested-at when it is given, else the value
\* stored for raw.canvas_submissions
SinceIngestedAt(override, wm) ==
  IF override # NULL THEN override
  ELSE get_last_watermark(wm, "raw.canvas_submissions")

\* main, lines 566-585: the lower bound of the reads, read from meta.watermark
\* when there is no override, and the commit after the DDL
Start(p, overrides) ==
  /\ run[p].pc \in {"idle", "done", "failed"}
  /\ \E override \in overrides :
       run' = [run EXCEPT ![p] =
                 [InitRun EXCEPT
                    !.pc = "read_identity",
                    !.override = override,
                    !.since_ingested_at = SinceIngestedAt(override, watermark)]]
  /\ runsSince' = IF runsSince < 2 THEN runsSince + 1 ELSE 2
  /\ UNCHANGED <<now, rawUsers, rawCourses, rawSubs, identityVars, dimStudent, identStudent,
                 dimCourse, identCourse, fact, watermark, lock, bornStudent, bornCourse,
                 last>>

\* main, lines 587-592: read_person_identity_map, a SELECT of its own, and the
\* staging of its rows by merge_dim_student
ReadIdentity(p) ==
  /\ run[p].pc = "read_identity"
  /\ run' = [run EXCEPT ![p].pc = "merge_student",
                        ![p].student_rows = read_person_identity_map(idMap, now),
                        ![StagingOf(p)].stg_student =
                           Staged(@, read_person_identity_map(idMap, now))]
  /\ UNCHANGED <<now, rawUsers, rawCourses, rawSubs, identityVars, dimStudent, identStudent,
                 dimCourse, identCourse, fact, watermark, lock, bornStudent, bornCourse,
                 last, runsSince>>

\* the MERGE statement matches the staged rows against the target
MergeMatch(p, pc, next, tbl, srcKeys, tgtKeys) ==
  /\ run[p].pc = pc
  /\ IF srcKeys = {}
     THEN \* if not rows: return
          /\ run' = [run EXCEPT ![p].pc = next]
          /\ UNCHANGED lock
     ELSE /\ HOLDLOCK => lock[tbl] = 0
          /\ lock' = IF HOLDLOCK THEN [lock EXCEPT ![tbl] = p] ELSE lock
          /\ run' = [run EXCEPT ![p].pc = "apply_" \o pc,
                                ![p].matched = MatchKeys(srcKeys, tgtKeys)]

\* the locks of p on tbl are released at commit or rollback
Unlock(p, tbl) ==
  lock' = IF lock[tbl] = p THEN [lock EXCEPT ![tbl] = 0] ELSE lock

\* merge_dim_student up to the MERGE's matching
MatchStudent(p) ==
  /\ MergeMatch(p, "merge_student", "student_keys", "cur.dim_student",
                IF run[p].student_rows = {} THEN {}
                ELSE {s.canvas_user_id : s \in run[StagingOf(p)].stg_student},
                {t.canvas_user_id : t \in dimStudent})
  /\ UNCHANGED <<now, rawUsers, rawCourses, rawSubs, identityVars, dimStudent, identStudent,
                 dimCourse, identCourse, fact, watermark, bornStudent, bornCourse,
                 last, runsSince>>

\* merge_dim_student: the MERGE's updates and inserts, then conn.commit()
ApplyStudent(p) ==
  /\ run[p].pc = "apply_merge_student"
  /\ Unlock(p, "cur.dim_student")
  /\ LET src == run[StagingOf(p)].stg_student
         unmatched == {s.canvas_user_id : s \in src} \ run[p].matched
     IN IF unmatched \cap {t.canvas_user_id : t \in dimStudent} # {}
        THEN \* UQ_cur_dim_student_canvas_user is violated: the statement fails
             /\ run' = [run EXCEPT ![p].pc = "failed", ![p].error = "merge_student"]
             /\ EndRun(p, dimStudent, dimCourse, fact)
             /\ UNCHANGED <<dimStudent, identStudent, bornStudent>>
        ELSE \E order \in Orders(unmatched) :
               LET inserted == {StudentInserted(StagedStudent(src, order[i]), identStudent, i)
                                  : i \in 1..Len(order)}
               IN /\ dimStudent' =
                       {StudentMatched(t, StagedStudent(src, t.canvas_user_id),
                                       identStudent)
                          : t \in {x \in dimStudent : x.canvas_user_id \in run[p].matched}}
                       \cup StudentNotInSource(
                              {x \in dimStudent : x.canvas_user_id \notin run[p].matched})
                       \cup inserted
                  /\ identStudent' = identStudent + Len(order)
                  /\ bornStudent' = bornStudent \cup inserted
                  /\ run' = [run EXCEPT ![p].pc = "student_keys"]
                  /\ UNCHANGED last
  /\ UNCHANGED <<now, rawUsers, rawCourses, rawSubs, identityVars, dimCourse, identCourse,
                 fact, watermark, bornCourse, runsSince>>

\* main, lines 594-596: load_student_key_map, a SELECT of its own
LoadStudentKeys(p) ==
  /\ run[p].pc = "student_keys"
  /\ run' = [run EXCEPT ![p].pc = "read_courses",
                        ![p].student_key_map = load_student_key_map(dimStudent)]
  /\ UNCHANGED <<now, rawUsers, rawCourses, rawSubs, identityVars, dimStudent, identStudent,
                 dimCourse, identCourse, fact, watermark, lock, bornStudent, bornCourse,
                 last, runsSince>>

\* main, lines 598-600: read_raw_courses
ReadCourses(p) ==
  /\ run[p].pc = "read_courses"
  /\ LET ids == SelectSince(rawCourses, run[p].since_ingested_at)
         r == read_raw_courses(rawCourses, ids, now)
     IN IF r.raised
        THEN /\ run' = [run EXCEPT ![p].pc = "failed", ![p].error = "read_courses",
                                   ![p].course_read = ids]
             /\ EndRun(p, dimStudent, dimCourse, fact)
        ELSE /\ run' = [run EXCEPT ![p].pc = "merge_course",
                                   ![p].course_read = ids,
                                   ![p].course_rows = r.rows,
                                   ![p].max_course_ing = r.max_ing,
                                   ![StagingOf(p)].stg_course = Staged(@, r.rows)]
             /\ UNCHANGED last
  /\ UNCHANGED <<now, rawUsers, rawCourses, rawSubs, identityVars, dimStudent, identStudent,
                 dimCourse, identCourse, fact, watermark, lock, bornStudent, bornCourse,
                 runsSince>>

\* merge_dim_course up to the MERGE's matching
MatchCourse(p) ==
  /\ MergeMatch(p, "merge_course", "course_keys", "cur.dim_course",
                IF run[p].course_rows = {} THEN {}
                ELSE {s.canvas_course_id : s \in run[StagingOf(p)].stg_course},
                {t.canvas_course_id : t \in dimCourse})
  /\ UNCHANGED <<now, rawUsers, rawCourses, rawSubs, identityVars, dimStudent, identStudent,
                 dimCourse, identCourse, fact, watermark, bornStudent, bornCourse,
                 last, runsSince>>

\* merge_dim_course: the MERGE's updates and inserts, then conn.commit()
ApplyCourse(p) ==
  /\ run[p].pc = "apply_merge_course"
  /\ Unlock(p, "cur.dim_course")
  /\ LET src == run[StagingOf(p)].stg_course
         unmatched == {s.canvas_course_id : s \in src} \ run[p].matched
     IN IF unmatched \cap {t.canvas_course_id : t \in dimCourse} # {}
        THEN \* UQ_cur_dim_course_canvas is violated: the statement fails
             /\ run' = [run EXCEPT ![p].pc = "failed", ![p].error = "merge_course"]
             /\ EndRun(p, dimStudent, dimCourse, fact)
             /\ UNCHANGED <<dimCourse, identCourse, bornCourse>>
        ELSE \E order \in Orders(unmatched) :
               LET inserted == {CourseInserted(StagedCourse(src, order[i]), identCourse, i)
                                  : i \in 1..Len(order)}
               IN /\ dimCourse' =
                       {IF t.canvas_course_id \in run[p].matched
                        THEN CourseMatched(t, StagedCourse(src, t.canvas_course_id),
                                           identCourse)
                        ELSE t : t \in dimCourse} \cup inserted
                  /\ identCourse' = identCourse + Len(order)
                  /\ bornCourse' = bornCourse \cup inserted
                  /\ run' = [run EXCEPT ![p].pc = "course_keys"]
                  /\ UNCHANGED last
  /\ UNCHANGED <<now, rawUsers, rawCourses, rawSubs, identityVars, dimStudent, identStudent,
                 fact, watermark, bornStudent, runsSince>>

\* main, lines 605-607: load_course_key_map, a SELECT of its own
LoadCourseKeys(p) ==
  /\ run[p].pc = "course_keys"
  /\ run' = [run EXCEPT ![p].pc = "read_subs",
                        ![p].course_key_map = load_course_key_map(dimCourse)]
  /\ UNCHANGED <<now, rawUsers, rawCourses, rawSubs, identityVars, dimStudent, identStudent,
                 dimCourse, identCourse, fact, watermark, lock, bornStudent, bornCourse,
                 last, runsSince>>

\* main, lines 609-612: read_raw_submissions with the two key maps read before
ReadSubs(p) ==
  /\ run[p].pc = "read_subs"
  /\ LET ids == SelectSince(rawSubs, run[p].since_ingested_at)
         r == read_raw_submissions(rawSubs, ids, run[p].student_key_map,
                                   run[p].course_key_map, now)
     IN IF r.raised
        THEN /\ run' = [run EXCEPT ![p].pc = "failed", ![p].error = "read_subs",
                                   ![p].sub_read = ids]
             /\ EndRun(p, dimStudent, dimCourse, fact)
        ELSE /\ run' = [run EXCEPT ![p].pc = "merge_fact",
                                   ![p].sub_read = ids,
                                   ![p].sub_rows = r.rows,
                                   ![p].fact_seen = {f.canvas_submission_id : f \in fact},
                                   ![p].skip_user = r.skip_user,
                                   ![p].skip_course = r.skip_course,
                                   ![p].max_sub_ing = r.max_ing,
                                   ![StagingOf(p)].stg_submission = Staged(@, r.rows)]
             /\ UNCHANGED last
  /\ UNCHANGED <<now, rawUsers, rawCourses, rawSubs, identityVars, dimStudent, identStudent,
                 dimCourse, identCourse, fact, watermark, lock, bornStudent, bornCourse,
                 runsSince>>

\* merge_fact_submission up to the MERGE's matching
MatchFact(p) ==
  /\ MergeMatch(p, "merge_fact", "watermark", "cur.fact_submission",
                IF run[p].sub_rows = {} THEN {}
                ELSE {s.canvas_submission_id : s \in run[StagingOf(p)].stg_submission},
                {t.canvas_submission_id : t \in fact})
  /\ UNCHANGED <<now, rawUsers, rawCourses, rawSubs, identityVars, dimStudent, identStudent,
                 dimCourse, identCourse, fact, watermark, bornStudent, bornCourse,
                 last, runsSince>>

\* merge_fact_submission: the MERGE's updates and inserts, then conn.commit()
ApplyFact(p) ==
  /\ run[p].pc = "apply_merge_fact"
  /\ Unlock(p, "cur.fact_submission")
  /\ LET src == run[StagingOf(p)].stg_submission
         unmatched == {s.canvas_submission_id : s \in src} \ run[p].matched
     IN IF unmatched \cap {t.canvas_submission_id : t \in fact} # {}
        THEN \* PK_cur_fact_submission is violated: the statement fails
             /\ run' = [run EXCEPT ![p].pc = "failed", ![p].error = "merge_fact"]
             /\ EndRun(p, dimStudent, dimCourse, fact)
             /\ UNCHANGED fact
        ELSE /\ fact' =
                  {IF t.canvas_submission_id \in run[p].matched
                   THEN FactMatched(t, StagedSub(src, t.canvas_submission_id))
                   ELSE t : t \in fact}
                  \cup {FactInserted(StagedSub(src, k)) : k \in unmatched}
             /\ run' = [run EXCEPT ![p].pc = "watermark"]
             /\ UNCHANGED last
  /\ UNCHANGED <<now, rawUsers, rawCourses, rawSubs, identityVars, dimStudent, identStudent,
                 dimCourse, identCourse, watermark, bornStudent, bornCourse,
                 runsSince>>

\* processed_through: the larger of the two, None when both are None
ProcessedThrough(max_course_ing, max_sub_ing) ==
  IF max_course_ing = NULL THEN max_sub_ing
  ELSE IF max_sub_ing = NULL THEN max_course_ing
  ELSE IF max_sub_ing > max_course_ing THEN max_sub_ing ELSE max_course_ing

\* main, lines 632-638: the four upserts and conn.commit()
WatermarksWritten(wm, processed_through, t) ==
  upsert_watermark(
    upsert_watermark(
      upsert_watermark(
        upsert_watermark(wm, "raw.canvas_submissions", processed_through),
        "cur.dim_course", processed_through),
      "cur.fact_submission", processed_through),
    "cur.dim_student", t)

\* main, lines 623-642, up to the first UPDATE of meta.watermark. When it
\* updates the row of raw.canvas_submissions the row stays locked until
\* conn.commit(), so the other statements follow without interference; when
\* it updates no row, @@ROWCOUNT = 0 and the INSERT is the next statement
AdvanceWatermark(p) ==
  /\ run[p].pc = "watermark"
  /\ LET processed_through ==
           ProcessedThrough(run[p].max_course_ing, run[p].max_sub_ing)
     IN IF processed_through = NULL
        THEN /\ run' = [run EXCEPT ![p].pc = "done"]
             /\ EndRun(p, dimStudent, dimCourse, fact)
             /\ UNCHANGED watermark
        ELSE IF "raw.canvas_submissions" \in DOMAIN watermark
        THEN /\ watermark' = WatermarksWritten(watermark, processed_through, now)
             /\ run' = [run EXCEPT ![p].pc = "done"]
             /\ EndRun(p, dimStudent, dimCourse, fact)
        ELSE /\ run' = [run EXCEPT ![p].pc = "insert_watermark"]
             /\ UNCHANGED <<watermark, last>>
  /\ UNCHANGED <<now, rawUsers, rawCourses, rawSubs, identityVars, dimStudent, identStudent,
                 dimCourse, identCourse, fact, lock, bornStudent, bornCourse,
                 runsSince>>

\* upsert_watermark, lines 99-103, after an UPDATE of no row: the INSERT, the
\* other three upserts and conn.commit(). The INSERT violates the primary key
\* of meta.watermark when another run inserted the row meanwhile: the
\* exception leaves main and nothing of the watermark is written
InsertWatermark(p) ==
  /\ run[p].pc = "insert_watermark"
  /\ IF "raw.canvas_submissions" \in DOMAIN watermark
     THEN /\ run' = [run EXCEPT ![p].pc = "failed", ![p].error = "watermark"]
          /\ UNCHANGED watermark
     ELSE /\ watermark' =
               WatermarksWritten(watermark,
                 ProcessedThrough(run[p].max_course_ing, run[p].max_sub_ing), now)
          /\ run' = [run EXCEPT ![p].pc = "done"]
  /\ EndRun(p, dimStudent, dimCourse, fact)
  /\ UNCHANGED <<now, rawUsers, rawCourses, rawSubs, identityVars, dimStudent, identStudent,
                 dimCourse, identCourse, fact, lock, bornStudent, bornCourse,
                 runsSince>>

\* ---------------------------------------------------------------- failing statements
\* the exception is swallowed and main goes on to the watermark
AfterFailureContinue == "watermark"

\* an exception raised by a merge leaves main: nothing of lines 594-642 runs
AfterFailure == "failed"

\* the changes of the failed statement stay in the target
FailedMergeKeepsPartial(before, partial) == partial

\* the target after a merge failed: the statement is rolled back and
\* conn.commit() is never reached
FailedMerge(before, partial) == before

\* the rows mine that earlier merges of the run wrote are undone with it
RolledBack(tbl, mine) == tbl \ mine

\* a table after a later phase of the run failed: each merge ended with
\* conn.commit(), so the rows mine it wrote stay
Committed(tbl, mine) == tbl

\* the staging rows live in a #temp table of the session and die with it;
\* p ends with the error of the merge that raised
Abort(p, error) ==
  /\ run' = [run EXCEPT ![p].pc = AfterFailure, ![p].error = error]
  /\ EndRun(p, dimStudent', dimCourse', fact')

\* merge_dim_student raises: while staging, or in the MERGE after it changed
\* the rows upd and inserted the rows ins; rolled-back IDENTITY values are lost
FailStudent(p) ==
  /\ run[p].pc \in {"merge_student", "apply_merge_student"}
  /\ run[p].student_rows # {}
  /\ Unlock(p, "cur.dim_student")
  /\ LET src == run[StagingOf(p)].stg_student
         unmatched == {s.canvas_user_id : s \in src} \ run[p].matched
     IN IF run[p].pc = "merge_student"
        THEN UNCHANGED <<dimStudent, identStudent>>
        ELSE \E upd \in SUBSET run[p].matched : \E insSet \in SUBSET unmatched :
               \E ins \in Orders(insSet) :
                 /\ dimStudent' = FailedMerge(dimStudent,
                      {IF t.canvas_user_id \in upd
                       THEN StudentMatched(t, StagedStudent(src, t.canvas_user_id),
                                           identStudent)
                       ELSE t : t \in dimStudent}
                      \cup {StudentInserted(StagedStudent(src, ins[i]), identStudent, i)
                              : i \in 1..Len(ins)})
                 /\ identStudent' = identStudent + Len(ins)
  /\ UNCHANGED <<dimCourse, fact>>
  /\ Abort(p, "merge_student")
  /\ UNCHANGED <<now, rawUsers, rawCourses, rawSubs, identityVars, identCourse,
                 watermark, bornStudent, bornCourse, runsSince>>

\* merge_dim_course raises
FailCourse(p) ==
  /\ run[p].pc \in {"merge_course", "apply_merge_course"}
  /\ run[p].course_rows # {}
  /\ Unlock(p, "cur.dim_course")
  /\ LET src == run[StagingOf(p)].stg_course
         unmatched == {s.canvas_course_id : s \in src} \ run[p].matched
     IN IF run[p].pc = "merge_course"
        THEN UNCHANGED <<dimCourse, identCourse>>
        ELSE \E upd \in SUBSET run[p].matched : \E insSet \in SUBSET unmatched :
               \E ins \in Orders(insSet) :
                 /\ dimCourse' = FailedMerge(dimCourse,
                      {IF t.canvas_course_id \in upd
                       THEN CourseMatched(t, StagedCourse(src, t.canvas_course_id),
                                          identCourse)
                       ELSE t : t \in dimCourse}
                      \cup {CourseInserted(StagedCourse(src, ins[i]), identCourse, i)
                              : i \in 1..Len(ins)})
                 /\ identCourse' = identCourse + Len(ins)
  /\ dimStudent' = Committed(dimStudent,
       {t \in dimStudent : \E s \in run[p].student_rows :
                             s.canvas_user_id = t.canvas_user_id})
  /\ UNCHANGED fact
  /\ Abort(p, "merge_course")
  /\ UNCHANGED <<now, rawUsers, rawCourses, rawSubs, identityVars, identStudent,
                 watermark, bornStudent, bornCourse, runsSince>>

\* merge_fact_submission raises
FailFact(p) ==
  /\ run[p].pc \in {"merge_fact", "apply_merge_fact"}
  /\ run[p].sub_rows # {}
  /\ Unlock(p, "cur.fact_submission")
  /\ LET src == run[StagingOf(p)].stg_submission
         unmatched == {s.canvas_submission_id : s \in src} \ run[p].matched
     IN IF run[p].pc = "merge_fact"
        THEN UNCHANGED fact
        ELSE \E upd \in SUBSET run[p].matched : \E ins \in SUBSET unmatched :
               fact' = FailedMerge(fact,
                 {IF t.canvas_submission_id \in upd
                  THEN FactMatched(t, StagedSub(src, t.canvas_submission_id))
                  ELSE t : t \in fact}
                 \cup {FactInserted(StagedSub(src, k)) : k \in ins})
  /\ dimStudent' = Committed(dimStudent,
       {t \in dimStudent : \E s \in run[p].student_rows :
                             s.canvas_user_id = t.canvas_user_id})
  /\ dimCourse' = Committed(dimCourse,
       {t \in dimCourse : \E s \in run[p].course_rows :
                            s.canvas_course_id = t.canvas_course_id})
  /\ Abort(p, "merge_fact")
  /\ UNCHANGED <<now, rawUsers, rawCourses, rawSubs, identityVars, identStudent,
                 identCourse, watermark, bornStudent, bornCourse, runsSince>>

\* one step of the run p, started with --since-ingested-at in overrides or without
RunStep(p, overrides) ==
  \/ Start(p, overrides)
  \/ ReadIdentity(p)
  \/ MatchStudent(p)
  \/ ApplyStudent(p)
  \/ LoadStudentKeys(p)
  \/ ReadCourses(p)
  \/ MatchCourse(p)
  \/ ApplyCourse(p)
  \/ LoadCourseKeys(p)
  \/ ReadSubs(p)
  \/ MatchFact(p)
  \/ ApplyFact(p)
  \/ AdvanceWatermark(p)
  \/ InsertWatermark(p)

\* ---------------------------------------------------------------- specifications
\* run_checks.main before it starts
InitJob ==
  [pc |-> "idle", job_run_id |-> NULL, records_written |-> 0, checks_total |-> 0,
   pending |-> {}]

\* load_jsonl_to_db before it is called
InitLoader ==
  [pc |-> "idle", file |-> <<>>, line_no |-> 0, incremental |-> FALSE,
   table |-> <<>>, wm |-> NULL, last_watermark |-> NULL,
   max_written_updated_at |-> NULL, written |-> {}, skipped |-> {}, failed |-> {},
   wm_before |-> NULL]

Init ==
  /\ now = 1
  /\ rawUsers = <<>>
  /\ rawCourses = <<>>
  /\ rawSubs = <<>>
  /\ idMap = {}
  /\ dq = {}
  /\ res = NoResolverRun
  /\ dimStudent = {}
  /\ identStudent = 0
  /\ dimCourse = {}
  /\ identCourse = 0
  /\ fact = {}
  /\ watermark = <<>>
  /\ lock = [t \in Tables |-> 0]
  /\ run = [p \in Procs |-> InitRun]
  /\ bornStudent = {}
  /\ bornCourse = {}
  /\ last = [ended |-> FALSE, override |-> NULL, outcome |-> Outcome({}, {}, {}),
             error |-> "none", since |-> NULL, before |-> "none"]
  /\ runsSince = 0
  /\ nLoads = 0
  /\ nResolver = 0
  /\ nRuns = 0
  /\ jobRun = {}
  /\ dqResult = {}
  /\ job = InitJob
  /\ ld = InitLoader

\* the identity resolver and the loader of raw users
IngestUser ==
  /\ nLoads < MaxUserIngest
  /\ IngestUserOf(UserIds, UserPayloads)
  /\ nLoads' = nLoads + 1
  /\ UNCHANGED <<nResolver, nRuns, jobVars, ld>>

Resolver ==
  /\ \/ /\ nResolver < MaxResolverRuns
        /\ ResolverRead
        /\ nResolver' = nResolver + 1
     \/ /\ ResolverWrite
        /\ UNCHANGED nResolver
  /\ UNCHANGED <<nLoads, nRuns, jobVars, ld>>

NextIdentity == IngestUser \/ Resolver

SpecIdentity == Init /\ [][NextIdentity]_vars

\* no run of build_curated.py is in progress
Quiet == \A p \in Procs : run[p].pc \in {"idle", "done", "failed"}

\* the loader between two runs of build_curated.py
Load(users, userDocs, courses, courseDocs, subs, subDocs) ==
  /\ Quiet
  /\ nLoads < MaxLoads
  /\ \/ IngestUserOf(users, userDocs)
     \/ IngestCourseOf(courses, courseDocs)
     \/ IngestSubOf(subs, subDocs)
  /\ nLoads' = nLoads + 1
  /\ UNCHANGED <<nResolver, nRuns, jobVars, ld>>

\* the resolver and the clock between two runs of build_curated.py
Between ==
  /\ Quiet
  /\ ResolverRead \/ ResolverWrite \/ Tick
  /\ UNCHANGED <<counters, jobVars, ld>>

\* a step of the run p of build_curated.py
Pipeline(p, overrides) ==
  /\ run[p].pc \in {"idle", "done", "failed"} => nRuns < MaxRuns
  /\ RunStep(p, overrides)
  /\ nRuns' = IF run[p].pc \in {"idle", "done", "failed"} THEN nRuns + 1 ELSE nRuns
  /\ UNCHANGED <<nLoads, nResolver, jobVars, ld>>

\* one run of build_curated.py at a time over changing dimensions
Next ==
  \/ Pipeline(1, {NULL})
  \/ Load({1, 2}, {DictPayload(E1), DictPayload(E3)},
          CourseIds, {CourseDoc(1), CourseDoc(2)},
          {1}, {SubDoc(1, 1)})
  \/ Between

Spec == Init /\ [][Next]_vars

\* one run of build_curated.py at a time over a changing backlog of submissions
\* that refer to users and courses with and without a dimension row
NextOrphan ==
  \/ Pipeline(1, {NULL})
  \/ Load({1}, {DictPayload(E1)},
          {1}, {CourseDoc(1), CourseDocOf(1, BAD)},
          SubIds, SubPayloads)
  \/ Between

SpecOrphan == Init /\ [][NextOrphan]_vars

\* one run of build_curated.py at a time, started with or without
\* --since-ingested-at, over a backlog ingested at different times
NextRead ==
  \/ Pipeline(1, {NULL} \cup Times)
  \/ Load({1}, {DictPayload(E1)},
          CourseIds, {CourseDoc(1)},
          SubIds, {SubDoc(1, 1)})
  \/ Between

SpecRead == Init /\ [][NextRead]_vars

\* two overlapping runs of build_curated.py over one backlog
NextConc ==
  \/ \E p \in Procs : Pipeline(p, {NULL})
  \/ Load({1}, {DictPayload(E1)},
          {1}, {CourseDoc(1)},
          {1}, {SubDoc(1, 1)})
  \/ Between

SpecConc == Init /\ [][NextConc]_vars

\* a statement of a merge of the run p fails in the database
Fault(p) ==
  /\ FailStudent(p) \/ FailCourse(p) \/ FailFact(p)
  /\ UNCHANGED <<counters, jobVars, ld>>

\* one run of build_curated.py at a time on a database whose statements may fail
NextFail ==
  \/ Pipeline(1, {NULL})
  \/ Fault(1)
  \/ Load({1}, {DictPayload(E1), DictPayload(E3)},
          {1}, {CourseDoc(1), CourseDoc(2)},
          {1}, {SubDoc(1, 1), SubDoc(2, 1)})
  \/ Between

SpecFail == Init /\ [][NextFail]_vars

\* the submission documents whose timestamps and indicators vary
FlagValues == {"true", "false", "none", "other"}
StampValues == {NULL, BAD} \cup Times \cup {Aware(t) : t \in Times}
FlagDocs ==
  {SubDocOf(1, 1, due, sub, late, missing) :
     due \in StampValues, sub \in StampValues, late \in FlagValues, missing \in FlagValues}

\* the database after load_raw.py loaded one user, one course and one submission
InitFlags ==
  /\ now = 1
  /\ rawUsers = (1 :> DictPayload(E1))
  /\ rawCourses = (1 :> [raw_payload |-> CourseDoc(1), ingested_at |-> 1])
  /\ \E d \in FlagDocs : rawSubs = (1 :> [raw_payload |-> d, ingested_at |-> 1])
  /\ idMap = {}
  /\ dq = {}
  /\ res = NoResolverRun
  /\ dimStudent = {}
  /\ identStudent = 0
  /\ dimCourse = {}
  /\ identCourse = 0
  /\ fact = {}
  /\ watermark = <<>>
  /\ lock = [t \in Tables |-> 0]
  /\ run = [p \in Procs |-> InitRun]
  /\ bornStudent = {}
  /\ bornCourse = {}
  /\ last = [ended |-> FALSE, override |-> NULL, outcome |-> Outcome({}, {}, {}),
             error |-> "none", since |-> NULL, before |-> "none"]
  /\ runsSince = 0
  /\ nLoads = 0
  /\ nResolver = 0
  /\ nRuns = 0
  /\ jobRun = {}
  /\ dqResult = {}
  /\ job = InitJob
  /\ ld = InitLoader

\* runs of build_curated.py over one submission document
NextFlags ==
  \/ Pipeline(1, {NULL})
  \/ Between

SpecFlags == InitFlags /\ [][NextFlags]_vars


\* ---------------------------------------------------------------- run_checks.main
\* the number of check results a complete job writes
NumChecks == 6

\* insert_job_run_running: the row inserted, its id taken from the IDENTITY
insert_job_run_running(job_name, id, t) ==
  [job_run_id |-> id, job_name |-> job_name, start_time |-> t, status |-> "running",
   end_time |-> NULL, duration_ms |-> NULL, records_written |-> NULL,
   error_message |-> NULL, metrics_json |-> NULL]

\* update_job_run_success on the row r
update_job_run_success(r, t, records_written, checks_total) ==
  [r EXCEPT !.end_time = t, !.status = "success", !.records_written = records_written,
            !.duration_ms = t - r.start_time, !.metrics_json = checks_total]

\* update_job_run_failed on the row r
update_job_run_failed(r, t, checks_total) ==
  [r EXCEPT !.end_time = t, !.status = "failed", !.error_message = "exception",
            !.duration_ms = t - r.start_time, !.metrics_json = checks_total]

\* UPDATE meta.job_run ... WHERE job_run_id = id
UpdateJobRun(table, id, f(_)) ==
  {IF r.job_run_id = id THEN f(r) ELSE r : r \in table}

\* main, lines 542-562: the row with status running is inserted and committed
JobStart ==
  /\ job.pc \in {"idle", "done", "raised"}
  /\ Cardinality(jobRun) < MaxRuns
  /\ LET id == Cardinality(jobRun) + 1
     IN /\ jobRun' = jobRun \cup {insert_job_run_running("dq.run_checks", id, now)}
        /\ job' = [InitJob EXCEPT !.pc = "checks", !.job_run_id = id]
  /\ UNCHANGED dqResult

\* main, lines 598-751: one check is computed and its result inserted, uncommitted
JobCheck ==
  /\ job.pc = "checks"
  /\ job.records_written < NumChecks
  /\ job' = [job EXCEPT !.records_written = @ + 1, !.checks_total = @ + 1,
                        !.pending = @ \cup {[job_run_id |-> job.job_run_id,
                                             check |-> job.records_written + 1]}]
  /\ UNCHANGED <<jobRun, dqResult>>

\* main, lines 753-771: update_job_run_success and conn.commit()
JobSucceed ==
  /\ job.pc = "checks"
  /\ job.records_written = NumChecks
  /\ LET success(r) == update_job_run_success(r, now, job.records_written, job.checks_total)
     IN jobRun' = UpdateJobRun(jobRun, job.job_run_id, success)
  /\ dqResult' = dqResult \cup job.pending
  /\ job' = [job EXCEPT !.pc = "done", !.pending = {}]

\* main, lines 773-785: a statement of the try block raised; conn.rollback(),
\* then update_job_run_failed and conn.commit() inside a try of their own,
\* then raise. When the UPDATE or its commit raises too (the connection is
\* gone), the except clause of lines 782-783 passes and the row stays as it was
\* inserted, with status running
JobRaise ==
  /\ job.pc = "checks"
  /\ \/ LET failed(r) == update_job_run_failed(r, now, job.checks_total)
        IN jobRun' = UpdateJobRun(jobRun, job.job_run_id, failed)
     \/ UNCHANGED jobRun
  /\ job' = [job EXCEPT !.pc = "raised", !.pending = {}]
  /\ UNCHANGED dqResult

\* a step of run_checks.py between two runs of build_curated.py
Job ==
  /\ Quiet
  /\ JobStart \/ JobCheck \/ JobSucceed \/ JobRaise
  /\ UNCHANGED <<now, rawUsers, rawCourses, rawSubs, identityVars, curatedVars, runsSince,
                 counters, ld>>

\* the database with the raw users ru, the raw courses rc, the raw submissions
\* rs, the identity map im and the locals r of the last resolver run, before
\* any run of build_curated.py
InitDb(ru, rc, rs, im, r) ==
  /\ now = 1
  /\ rawUsers = ru
  /\ rawCourses = rc
  /\ rawSubs = rs
  /\ idMap = im
  /\ dq = {}
  /\ res = r
  /\ dimStudent = {}
  /\ identStudent = 0
  /\ dimCourse = {}
  /\ identCourse = 0
  /\ fact = {}
  /\ watermark = <<>>
  /\ lock = [t \in Tables |-> 0]
  /\ run = [p \in Procs |-> InitRun]
  /\ bornStudent = {}
  /\ bornCourse = {}
  /\ last = [ended |-> FALSE, override |-> NULL, outcome |-> Outcome({}, {}, {}),
             error |-> "none", since |-> NULL, before |-> "none"]
  /\ runsSince = 0
  /\ nLoads = 0
  /\ nResolver = 0
  /\ nRuns = 0
  /\ jobRun = {}
  /\ dqResult = {}
  /\ job = InitJob
  /\ ld = InitLoader

\* the database after load_raw.py loaded one user, one course and one submission
InitLoaded ==
  InitDb(1 :> DictPayload(E1),
         1 :> [raw_payload |-> CourseDoc(1), ingested_at |-> 1],
         1 :> [raw_payload |-> SubDoc(1, 1), ingested_at |-> 1],
         {}, NoResolverRun)

\* the same database after build_identity_map.py ran: one group, the e-mail
\* of user 1
InitResolved ==
  LET rows == <<[id |-> 1, raw_payload |-> DictPayload(E1)]>>
      email_map == BuildEmailMap(rows, 1, <<>>)
  IN InitDb(1 :> DictPayload(E1),
            1 :> [raw_payload |-> CourseDoc(1), ingested_at |-> 1],
            1 :> [raw_payload |-> SubDoc(1, 1), ingested_at |-> 1],
            Primaries(email_map),
            [pc |-> "idle", rows |-> rows, primaries |-> Primaries(email_map),
             dq_rows |-> DqRows(email_map)])

\* runs of build_curated.py and of run_checks.py over one user, one course and
\* one submission
NextJob ==
  \/ Pipeline(1, {NULL})
  \/ Between
  \/ Job

SpecJob == InitLoaded /\ [][NextJob]_vars

\* ---------------------------------------------------------------- load_raw.load_jsonl_to_db
MaxLines == 3
MaxFiles == 2

\* a line of the JSONL file
\*   valid     json.loads accepts it and the document has a non-null id
\*   id        the id of the document
\*   updated   the value under --updated-field: NULL (absent or null), BAD (no
\*             ISO timestamp), t (no offset) or Aware(t)
Line(valid, id, updated) == [valid |-> valid, id |-> id, updated |-> updated]
Lines ==
  {Line(TRUE, 1, u) : u \in {NULL, BAD, Aware(MaxTime)} \cup Times}
  \cup {Line(TRUE, 2, u) : u \in {NULL} \cup Times}
  \cup {Line(FALSE, NULL, NULL)}

\* the files load_raw.py is given
Files == UNION {[1..n -> Lines] : n \in 0..MaxLines}

\* parse_iso_datetime: the naive UTC instant, None when the value is absent or
\* is no ISO timestamp
parse_iso_datetime(val) ==
  IF val = NULL \/ val = BAD THEN NULL
  ELSE IF val > TZ THEN val - TZ ELSE val

\* the incremental filter with < for <=
FilteredStrict(incremental, last_watermark, updated_at) ==
  incremental /\ last_watermark # NULL /\ updated_at # NULL /\ updated_at < last_watermark

\* lines 202-205: the line is skipped
Filtered(incremental, last_watermark, updated_at) ==
  incremental /\ last_watermark # NULL /\ updated_at # NULL /\ updated_at <= last_watermark

\* lines 170-180: the stored watermark is read when --incremental is given
LoaderStart ==
  /\ ld.pc \in {"idle", "done"}
  /\ nLoads < MaxFiles
  /\ \E file \in Files : \E incremental \in BOOLEAN :
       ld' = [InitLoader EXCEPT
                !.pc = "lines", !.file = file, !.incremental = incremental,
                !.table = ld.table, !.wm = ld.wm, !.wm_before = ld.wm,
                !.last_watermark = IF incremental THEN ld.wm ELSE NULL]
  /\ nLoads' = nLoads + 1

\* lines 183-216: one line of the file
LoaderLine ==
  /\ ld.pc = "lines"
  /\ ld.line_no < Len(ld.file)
  /\ LET line_no == ld.line_no + 1
         line == ld.file[line_no]
         updated_at == parse_iso_datetime(line.updated)
     IN ld' =
          IF ~line.valid
          THEN [ld EXCEPT !.line_no = line_no, !.failed = @ \cup {line_no}]
          ELSE IF Filtered(ld.incremental, ld.last_watermark, updated_at)
          THEN [ld EXCEPT !.line_no = line_no, !.skipped = @ \cup {line_no}]
          ELSE [ld EXCEPT
                  !.line_no = line_no,
                  !.table = upsert_record(@, line.id,
                              [raw_payload |-> line, updated_at |-> updated_at]),
                  !.written = @ \cup {line_no},
                  !.max_written_updated_at =
                     IF updated_at # NULL /\ (@ = NULL \/ updated_at > @)
                     THEN updated_at ELSE @]
  /\ UNCHANGED nLoads

\* lines 218-220: the watermark is advanced after the file
LoaderFinish ==
  /\ ld.pc = "lines"
  /\ ld.line_no = Len(ld.file)
  /\ ld' = [ld EXCEPT
              !.pc = "done",
              !.wm = IF ld.incremental /\ ld.max_written_updated_at # NULL
                     THEN ld.max_written_updated_at ELSE @]
  /\ UNCHANGED nLoads

\* a step of load_raw.py
Loader ==
  /\ LoaderStart \/ LoaderLine \/ LoaderFinish
  /\ UNCHANGED <<now, rawUsers, rawCourses, rawSubs, identityVars, curatedVars, runsSince,
                 nResolver, nRuns, jobVars>>

NextLoader == Loader

SpecLoader == Init /\ [][NextLoader]_vars

\* ---------------------------------------------------------------- ingestion during runs
\* load_raw.py upserts a course or a submission while runs may be under way
LiveLoad(courses, courseDocs, subs, subDocs) ==
  /\ nLoads < MaxLoads
  /\ \/ IngestCourseOf(courses, courseDocs)
     \/ IngestSubOf(subs, subDocs)
  /\ nLoads' = nLoads + 1
  /\ UNCHANGED <<nResolver, nRuns, jobVars, ld>>

\* the clock advances while runs may be under way
LiveTick ==
  /\ Tick
  /\ UNCHANGED <<counters, jobVars, ld>>

\* one run of build_curated.py at a time while the loader keeps ingesting
NextLive ==
  \/ Pipeline(1, {NULL})
  \/ LiveLoad({1, 2}, {CourseDoc(1)}, {1, 2}, {SubDoc(1, 1)})
  \/ LiveTick
  \/ Between

SpecLive == InitLoaded /\ [][NextLive]_vars

\* load_raw.py upserts a course while runs may be under way
LiveCourse(courses, courseDocs) ==
  /\ nLoads < MaxLoads
  /\ IngestCourseOf(courses, courseDocs)
  /\ nLoads' = nLoads + 1
  /\ UNCHANGED <<nResolver, nRuns, jobVars, ld>>

\* the run p is started once
Once(p) == run[p].pc \notin {"done", "failed"}

\* two overlapping runs of build_curated.py while the loader ingests a course
NextOverlap ==
  \/ \E p \in Procs : Once(p) /\ Pipeline(p, {NULL})
  \/ LiveCourse({2}, {CourseDoc(1)})
  \/ LiveTick

SpecOverlap == InitResolved /\ [][NextOverlap]_vars

\* ---------------------------------------------------------------- rows not in the batch
\* the database after load_raw.py loaded user 1, build_identity_map.py ran
\* and load_raw.py loaded user 2
InitStale ==
  LET rows == <<[id |-> 1, raw_payload |-> DictPayload(E1)]>>
      email_map == BuildEmailMap(rows, 1, <<>>)
  IN InitDb(1 :> DictPayload(E1) @@ 2 :> DictPayload(E3),
            1 :> [raw_payload |-> CourseDoc(1), ingested_at |-> 1],
            1 :> [raw_payload |-> SubDoc(1, 1), ingested_at |-> 1],
            Primaries(email_map),
            [pc |-> "idle", rows |-> rows, primaries |-> Primaries(email_map),
             dq_rows |-> DqRows(email_map)])

\* build_identity_map.py is run once more
ResolverOnce ==
  /\ res.pc = "idle" => nResolver = 0
  /\ Resolver

\* two overlapping runs of build_curated.py while build_identity_map.py runs
\* and the clock advances
NextStale ==
  \/ \E p \in Procs : Once(p) /\ Pipeline(p, {NULL})
  \/ ResolverOnce
  \/ LiveTick

SpecStale == InitStale /\ [][NextStale]_vars

\* ---------------------------------------------------------------- a longer history
\* load_raw.py upserts a submission between two runs of build_curated.py
LoadSubs(subs, subDocs) ==
  /\ Quiet
  /\ nLoads < MaxLoads
  /\ IngestSubOf(subs, subDocs)
  /\ nLoads' = nLoads + 1
  /\ UNCHANGED <<nResolver, nRuns, jobVars, ld>>

\* a step of the run p, one run more than MaxRuns being allowed
LongPipeline(p, overrides) ==
  /\ run[p].pc \in {"idle", "done", "failed"} => nRuns < MaxRuns + 1
  /\ RunStep(p, overrides)
  /\ nRuns' = IF run[p].pc \in {"idle", "done", "failed"} THEN nRuns + 1 ELSE nRuns
  /\ UNCHANGED <<nLoads, nResolver, jobVars, ld>>

\* the database after load_raw.py loaded one user and one course
InitNoSubs ==
  InitDb(1 :> DictPayload(E1),
         1 :> [raw_payload |-> CourseDoc(1), ingested_at |-> 1],
         <<>>,
         {}, NoResolverRun)

\* runs of build_curated.py over submissions ingested at different times, the
\* identity map being built before or after them
NextLater ==
  \/ LongPipeline(1, {NULL})
  \/ LoadSubs(SubIds, {SubDoc(1, 1)})
  \/ Between

SpecLater == InitNoSubs /\ [][NextLater]_vars

\* ================================================================ properties


\* ---------------------------------------------------------------- identity map
\* C5: the identity map holds at most one row per normalized email
C5_OneRowPerEmail ==
  \A r1 \in idMap : \A r2 \in idMap :
    r1.email_normalized = r2.email_normalized => r1.canvas_user_id = r2.canvas_user_id

\* C6: after a resolver run has committed the stored identity map and the
\* stored duplicate flags are exactly the sets that the run computed
C6_FullReplacement ==
  (nResolver > 0 /\ res.pc = "idle") => idMap = res.primaries /\ dq = res.dq_rows

\* the records the last resolver run read, as a set
ResRows == Range(res.rows)

\* the normalized emails the last run saw
ResEmails == {normalize_email(find_email(r.raw_payload)) : r \in ResRows} \ {<<>>}

\* the ids whose normalized email is e
ResGroup(e) == {r.id : r \in {x \in ResRows : normalize_email(find_email(x.raw_payload)) = e}}

\* C7: the canonical id of every normalized-email group is the smallest id of
\* the group and the duplicate flags are the other members, whatever the order
\* in which the records were read
C7_Determinism ==
  /\ res.primaries =
       {[canvas_user_id |-> Min(ResGroup(e)), email_normalized |-> e,
         match_method |-> "email_exact", match_confidence |-> 100] : e \in ResEmails}
  /\ res.dq_rows =
       UNION {{[canvas_user_id |-> id, email_normalized |-> e, reason |-> "duplicate_email",
                severity |-> "warn", primary_canvas_user_id |-> Min(ResGroup(e))]
               : id \in ResGroup(e) \ {Min(ResGroup(e))}} : e \in ResEmails}

\* a committed run that read a later member of a two-member group first
C7_Witness ==
  /\ res.pc = "idle" /\ idMap = res.primaries
  /\ \E i \in 1..Len(res.rows) : \E j \in 1..Len(res.rows) :
       /\ i < j /\ res.rows[i].id > res.rows[j].id
       /\ \E d \in res.dq_rows :
            d.canvas_user_id = res.rows[i].id /\ d.primary_canvas_user_id = res.rows[j].id

\* the ids whose extracted email equals that of record r after trimming and
\* lower-casing
TrimLowerGroup(r) ==
  {x.id : x \in {y \in ResRows : /\ find_email(y.raw_payload) # <<>>
                                 /\ Lower(Strip(find_email(y.raw_payload)))
                                      = Lower(Strip(find_email(r.raw_payload)))}}

\* C8: a group of n ids gets exactly one identity-map entry, for its smallest
\* id, and n-1 duplicate flags, one per other id, each with reason
\* duplicate_email, severity warn and the canonical id as reference
C8_GroupOutput ==
  \A r \in ResRows : find_email(r.raw_payload) # <<>> =>
    LET G == TrimLowerGroup(r)
        P == {p \in res.primaries : p.canvas_user_id \in G}
        F == {d \in res.dq_rows : d.canvas_user_id \in G}
    IN /\ Cardinality(P) = 1
       /\ \A p \in P : /\ p.canvas_user_id = Min(G)
                       /\ p.email_normalized = Lower(Strip(find_email(r.raw_payload)))
       /\ Cardinality(F) = Cardinality(G) - 1
       /\ {d.canvas_user_id : d \in F} = G \ {Min(G)}
       /\ \A d \in F : /\ d.reason = "duplicate_email"
                       /\ d.severity = "warn"
                       /\ d.primary_canvas_user_id = Min(G)
                       /\ d.email_normalized = Lower(Strip(find_email(r.raw_payload)))

\* ids 1 'a@x.c' and 3 'A@X.c ' resolved to canonical 1 with one flag for 3
C8_Witness ==
  /\ res.pc = "idle" /\ idMap = res.primaries /\ dq = res.dq_rows
  /\ \E r \in ResRows : r.id = 1 /\ r.raw_payload = DictPayload(E1)
  /\ \E r \in ResRows : r.id = 3 /\ r.raw_payload = DictPayload(E2)
  /\ \E p \in res.primaries : p.canvas_user_id = 1 /\ p.email_normalized = E1
  /\ \E d \in res.dq_rows : d.canvas_user_id = 3 /\ d.primary_canvas_user_id = 1
  /\ Cardinality(res.dq_rows) = 1

\* ---------------------------------------------------------------- dimensions
\* C1: a step never changes the surrogate key of a natural key that has one:
\* the row of that natural key stays the only one and keeps its key
C1_KeyStable ==
  [][/\ \A r \in dimStudent :
          /\ \E r2 \in dimStudent' : r2.canvas_user_id = r.canvas_user_id
          /\ \A r2 \in dimStudent' :
               r2.canvas_user_id = r.canvas_user_id => r2.gies_person_id = r.gies_person_id
     /\ \A r \in dimCourse :
          /\ \E r2 \in dimCourse' : r2.canvas_course_id = r.canvas_course_id
          /\ \A r2 \in dimCourse' :
               r2.canvas_course_id = r.canvas_course_id => r2.course_key = r.course_key]_vars

\* a student row that a later run has given another email than it was inserted
\* with, and a course row that a later run has merged again
C1_Witness ==
  /\ \E r \in dimStudent : \E b \in bornStudent :
       /\ r.canvas_user_id = b.canvas_user_id
       /\ r.gies_person_id = b.gies_person_id
       /\ r.email_normalized # b.email_normalized
  /\ \E r \in dimCourse : \E b \in bornCourse :
       /\ r.canvas_course_id = b.canvas_course_id
       /\ r.course_key = b.course_key
       /\ r # b

Ended == {"done", "failed"}

\* C2: a run that ends after the same invocation ran before it on the same
\* raw input and identity map leaves the natural keys, the key assignments
\* and the row counts as the earlier run left them
C2_Idempotent ==
  [][\A p \in Procs :
       (/\ run[p].pc \notin Ended /\ run'[p].pc \in Ended
        /\ runsSince = 2 /\ last.ended /\ last.override = run[p].override)
       => Outcome(dimStudent', dimCourse', fact') = last.outcome]_vars

\* a second run over unchanged input has completed with rows in all three tables
C2_Witness ==
  /\ runsSince = 2 /\ run[1].pc = "done" /\ nRuns = 2
  /\ dimStudent # {} /\ dimCourse # {} /\ fact # {}
  /\ Outcome(dimStudent, dimCourse, fact) = last.outcome

\* C3: natural keys and surrogate keys are unique in each dimension, and every
\* surrogate key ever issued still belongs to the natural key it was issued to
C3_KeysUnique ==
  /\ \A r1 \in dimStudent : \A r2 \in dimStudent :
       (r1.canvas_user_id = r2.canvas_user_id \/ r1.gies_person_id = r2.gies_person_id)
       => r1 = r2
  /\ \A r1 \in dimCourse : \A r2 \in dimCourse :
       (r1.canvas_course_id = r2.canvas_course_id \/ r1.course_key = r2.course_key)
       => r1 = r2
  /\ \A b \in bornStudent : \E r \in dimStudent :
       r.gies_person_id = b.gies_person_id /\ r.canvas_user_id = b.canvas_user_id
  /\ \A b \in bornCourse : \E r \in dimCourse :
       r.course_key = b.course_key /\ r.canvas_course_id = b.canvas_course_id

\* two students inserted by one MERGE in an order other than that of their
\* natural keys, next to a course row
C3_Witness ==
  /\ \E r1 \in dimStudent : \E r2 \in dimStudent :
       r1.canvas_user_id < r2.canvas_user_id /\ r1.gies_person_id > r2.gies_person_id
  /\ dimCourse # {}

\* ---------------------------------------------------------------- concurrent runs
MergeErrors == {"merge_student", "merge_course", "merge_fact"}

\* C4: overlapping runs never leave two rows for one natural key in a target
\* table, and none of them fails in a MERGE
C4_NoDoubleInsert ==
  /\ \A r1 \in dimStudent : \A r2 \in dimStudent :
       r1.canvas_user_id = r2.canvas_user_id => r1 = r2
  /\ \A r1 \in dimCourse : \A r2 \in dimCourse :
       r1.canvas_course_id = r2.canvas_course_id => r1 = r2
  /\ \A r1 \in fact : \A r2 \in fact :
       r1.canvas_submission_id = r2.canvas_submission_id => r1 = r2
  /\ \A p \in Procs : run[p].error \notin MergeErrors

\* both runs have ended after each staged submission 1 while the fact table
\* was empty: one inserted it, the other matched it
C4_Witness ==
  /\ run[1].pc = "done" /\ run[2].pc = "done"
  /\ \A p \in Procs : \E s \in run[p].sub_rows : s.canvas_submission_id = 1
  /\ \A p \in Procs : run[p].fact_seen = {}
  /\ \E p \in Procs : run[p].matched = {}
  /\ \E p \in Procs : run[p].matched = {1}
  /\ Cardinality(fact) = 1 /\ Cardinality(dimStudent) = 1 /\ Cardinality(dimCourse) = 1

\* ---------------------------------------------------------------- fact builder
\* the submissions read whose user reference is an integer without a key
OrphanUsers(ids, student_key_map) ==
  {id \in ids : /\ rawSubs[id].raw_payload.kind = "dict"
                /\ rawSubs[id].raw_payload.user_id \notin {NULL, BAD}
                /\ rawSubs[id].raw_payload.user_id \notin DOMAIN student_key_map}

\* the submissions read whose course reference is an integer without a key
OrphanCourses(ids, course_key_map) ==
  {id \in ids : /\ rawSubs[id].raw_payload.kind = "dict"
                /\ rawSubs[id].raw_payload.course_id \notin {NULL, BAD}
                /\ rawSubs[id].raw_payload.course_id \notin DOMAIN course_key_map}

\* the submissions read that are not an object or carry a value that is no
\* number where one is converted
Unreadable(ids) ==
  {id \in ids : \/ rawSubs[id].raw_payload.kind = "nondict"
                \/ /\ rawSubs[id].raw_payload.kind = "dict"
                   /\ BAD \in {rawSubs[id].raw_payload.user_id,
                                rawSubs[id].raw_payload.course_id,
                                rawSubs[id].raw_payload.assignment_id,
                                rawSubs[id].raw_payload.score,
                                rawSubs[id].raw_payload.attempt}}

\* C9: a submission whose user (course) reference has no key in the student
\* (course) key map never makes the read fail; the read emits a row for it
\* with a null surrogate key and the natural key, counts it once, and the
\* fact merge stores that row
C9_OrphanTolerance ==
  [][\A p \in Procs :
       /\ (run[p].pc = "read_subs" /\ run'[p].pc # "read_subs") =>
            LET ids == run'[p].sub_read
                ou == OrphanUsers(ids, run[p].student_key_map)
                oc == OrphanCourses(ids, run'[p].course_key_map)
            IN /\ run'[p].pc = "failed" => Unreadable(ids) # {}
               /\ run'[p].pc # "failed" =>
                    /\ \A id \in ou : \E s \in run'[p].sub_rows :
                         /\ s.canvas_submission_id = id
                         /\ s.gies_person_id = NULL
                         /\ s.canvas_user_id = rawSubs[id].raw_payload.user_id
                    /\ \A id \in oc : \E s \in run'[p].sub_rows :
                         /\ s.canvas_submission_id = id
                         /\ s.course_key = NULL
                         /\ s.canvas_course_id = rawSubs[id].raw_payload.course_id
                    /\ run'[p].skip_user = Cardinality(ou)
                    /\ run'[p].skip_course = Cardinality(oc)
       /\ (run[p].pc = "apply_merge_fact" /\ run'[p].pc = "watermark") =>
            \A s \in run[p].sub_rows : \E f \in fact' :
              /\ f.canvas_submission_id = s.canvas_submission_id
              /\ f.gies_person_id = s.gies_person_id
              /\ f.course_key = s.course_key
              /\ f.canvas_user_id = s.canvas_user_id
              /\ f.canvas_course_id = s.canvas_course_id]_vars

\* a run has stored a submission without a student key and a submission
\* without a course key next to one with a student key, and counted them
C9_Witness ==
  /\ run[1].pc = "watermark"
  /\ run[1].skip_user >= 1 /\ run[1].skip_course >= 1
  /\ \E f \in fact : f.gies_person_id = NULL /\ f.canvas_user_id # NULL
  /\ \E f \in fact : f.course_key = NULL /\ f.canvas_course_id # NULL
  /\ \E f \in fact : f.gies_person_id # NULL

\* ---------------------------------------------------------------- incremental reads
\* the records of table ingested at or after since; all of them without a bound
IngestedSince(table, since) ==
  IF since = NULL THEN DOMAIN table
  ELSE {id \in DOMAIN table : ~(table[id].ingested_at < since)}

\* C10: a run without override and without a stored value reads with no lower
\* bound; the course read and the submission read return exactly the records
\* ingested at or after the lower bound, all records when there is none
C10_IncrementalRead ==
  [][\A p \in Procs :
       /\ (run[p].pc \in {"idle", "done", "failed"} /\ run'[p].pc = "read_identity") =>
            ((/\ run'[p].override = NULL
              /\ \/ "raw.canvas_submissions" \notin DOMAIN watermark
                 \/ watermark["raw.canvas_submissions"] = NULL)
             => run'[p].since_ingested_at = NULL)
       /\ (run[p].pc = "read_courses" /\ run'[p].pc # "read_courses") =>
            run'[p].course_read = IngestedSince(rawCourses, run[p].since_ingested_at)
       /\ (run[p].pc = "read_subs" /\ run'[p].pc # "read_subs") =>
            run'[p].sub_read = IngestedSince(rawSubs, run[p].since_ingested_at)]_vars

\* a run whose lower bound is the stored watermark has read a course ingested
\* at the bound and left out one ingested before it
C10_Witness ==
  /\ run[1].pc = "merge_course"
  /\ run[1].override = NULL /\ run[1].since_ingested_at # NULL
  /\ \E id \in run[1].course_read : rawCourses[id].ingested_at = run[1].since_ingested_at
  /\ \E id \in DOMAIN rawCourses :
       id \notin run[1].course_read /\ rawCourses[id].ingested_at < run[1].since_ingested_at

\* ---------------------------------------------------------------- watermark
WatermarkSources == {"raw.canvas_submissions", "cur.dim_course", "cur.fact_submission"}

\* the positions of a run from which the watermark is written
WatermarkSteps == {"watermark", "insert_watermark"}

\* every row the run p staged has a row in its target
StagedApplied(p) ==
  /\ \A s \in run[p].student_rows : \E t \in dimStudent :
       t.canvas_user_id = s.canvas_user_id
  /\ \A s \in run[p].course_rows : \E t \in dimCourse :
       t.canvas_course_id = s.canvas_course_id
  /\ \A s \in run[p].sub_rows : \E t \in fact :
       t.canvas_submission_id = s.canvas_submission_id

\* C11: a step of a run in which a merge failed never writes a watermark, and
\* the watermark is written only by a run without error whose student, course
\* and fact merges have applied their batches
C11_WatermarkAfterMerges ==
  [][/\ \A p \in Procs : run'[p].error \in MergeErrors => watermark' = watermark
     /\ watermark' # watermark =>
          \E p \in Procs : /\ run[p].pc \in WatermarkSteps /\ run'[p].pc = "done"
                           /\ run[p].error = "none"
                           /\ StagedApplied(p)]_vars

\* a run that read submissions never processed before has failed in the fact
\* merge, and no watermark row exists
C11_Witness ==
  /\ run[1].pc = "failed" /\ run[1].error = "merge_fact"
  /\ run[1].max_sub_ing # NULL /\ run[1].max_course_ing # NULL
  /\ dimStudent # {} /\ dimCourse # {}
  /\ watermark = <<>>

\* C12: the value stored for raw.canvas_submissions, cur.dim_course and
\* cur.fact_submission never decreases, and a row once written stays
C12_WatermarkMonotone ==
  [][\A s \in WatermarkSources :
       s \in DOMAIN watermark =>
         /\ s \in DOMAIN watermark'
         /\ ~(watermark'[s] < watermark[s])]_vars

\* a run started with an override earlier than the stored value has completed
\* after reading records, and the stored value is the later one
C12_Witness ==
  /\ run[1].pc = "done"
  /\ run[1].override # NULL
  /\ run[1].course_read # {}
  /\ "raw.canvas_submissions" \in DOMAIN watermark
  /\ run[1].override < watermark["raw.canvas_submissions"]
  /\ nRuns = 2

\* the latest ingested_at among the records of table that gave one of rows
MaxMerged(table, keys) == MaxIngested(table, keys \cap DOMAIN table)

\* C13: the value a run writes for a source is the latest ingested_at among
\* the records of that source which the run read and merged; when the run
\* merged none of that source, its row is left as it was
C13_OwnSourceMax ==
  [][\A p \in Procs :
       (run[p].pc \in WatermarkSteps /\ run'[p].pc = "done") =>
         LET subs == MaxMerged(rawSubs, {s.canvas_submission_id : s \in run[p].sub_rows})
             courses == MaxMerged(rawCourses, {s.canvas_course_id : s \in run[p].course_rows})
             Written(src, v) ==
               IF v = NULL
               THEN get_last_watermark(watermark', src) = get_last_watermark(watermark, src)
               ELSE get_last_watermark(watermark', src) = v
         IN /\ Written("raw.canvas_submissions", subs)
            /\ Written("cur.fact_submission", subs)
            /\ Written("cur.dim_course", courses)]_vars

\* C14: a failing fact merge ends the run with the student and course rows of
\* the run in place, the fact table and the watermark as they were; the next
\* run reads from the same lower bound and ends with the keys of the
\* dimensions unchanged and a fact row, resolved against them, for every
\* submission of that window
C14_FailureIsolation ==
  [][\A p \in Procs :
       /\ (run[p].pc # "failed" /\ run'[p].error = "merge_fact") =>
            /\ run'[p].pc = "failed"
            /\ dimStudent' = dimStudent /\ dimCourse' = dimCourse
            /\ \A s \in run[p].student_rows : \E t \in dimStudent' :
                 t.canvas_user_id = s.canvas_user_id
                 /\ t.email_normalized = s.email_normalized
            /\ \A s \in run[p].course_rows : \E t \in dimCourse' :
                 t.canvas_course_id = s.canvas_course_id /\ t.name = s.name
            /\ fact' = fact
            /\ watermark' = watermark
       /\ (run[p].pc = "failed" /\ run[p].error = "merge_fact"
           /\ run'[p].pc = "read_identity" /\ run[p].override = run'[p].override) =>
            run'[p].since_ingested_at = run[p].since_ingested_at
       /\ (run[p].pc \in WatermarkSteps /\ run'[p].pc = "done"
           /\ last.error = "merge_fact" /\ runsSince = 2
           /\ last.override = run[p].override) =>
            LET window == {id \in IngestedSince(rawSubs, last.since) :
                             rawSubs[id].raw_payload.kind = "dict"}
                skm == load_student_key_map(dimStudent)
                ckm == load_course_key_map(dimCourse)
            IN /\ Outcome(dimStudent, dimCourse, fact).students = last.outcome.students
               /\ Outcome(dimStudent, dimCourse, fact).courses = last.outcome.courses
               /\ {f.canvas_submission_id : f \in fact} = last.outcome.facts \cup window
               /\ \A id \in window : \E f \in fact :
                    /\ f.canvas_submission_id = id
                    /\ f.canvas_user_id = rawSubs[id].raw_payload.user_id
                    /\ f.gies_person_id = MapGet(skm, f.canvas_user_id)
                    /\ f.course_key = MapGet(ckm, f.canvas_course_id)]_vars

\* the run after a run that failed in the fact merge has completed over the
\* same input and stored the submission with both keys resolved
C14_Witness ==
  /\ run[1].pc = "done" /\ last.before = "merge_fact" /\ runsSince = 2
  /\ \E f \in fact : f.gies_person_id # NULL /\ f.course_key # NULL
  /\ "raw.canvas_submissions" \in DOMAIN watermark

\* C15: a step in which the merge of a table fails leaves the table as it
\* was; a table changes only in the step that completes its merge, and then
\* every row of the batch is in it
C15_MergeAtomic ==
  [][/\ \A p \in Procs :
          /\ (run[p].pc # "failed" /\ run'[p].error = "merge_student") =>
               dimStudent' = dimStudent
          /\ (run[p].pc # "failed" /\ run'[p].error = "merge_course") =>
               dimCourse' = dimCourse
          /\ (run[p].pc # "failed" /\ run'[p].error = "merge_fact") => fact' = fact
     /\ dimStudent' # dimStudent =>
          \E p \in Procs :
            /\ run[p].pc = "apply_merge_student" /\ run'[p].pc = "student_keys"
            /\ \A s \in run[p].student_rows : \E t \in dimStudent' :
                 /\ t.canvas_user_id = s.canvas_user_id
                 /\ t.email_normalized = s.email_normalized
     /\ dimCourse' # dimCourse =>
          \E p \in Procs :
            /\ run[p].pc = "apply_merge_course" /\ run'[p].pc = "course_keys"
            /\ \A s \in run[p].course_rows : \E t \in dimCourse' :
                 t.canvas_course_id = s.canvas_course_id /\ t.name = s.name
     /\ fact' # fact =>
          \E p \in Procs :
            /\ run[p].pc = "apply_merge_fact" /\ run'[p].pc = "watermark"
            /\ \A s \in run[p].sub_rows : \E t \in fact' :
                 /\ t.canvas_submission_id = s.canvas_submission_id
                 /\ t.canvas_user_id = s.canvas_user_id]_vars

\* a course merge has failed while the MERGE was reconciling a batch with a
\* new name for a course that has a row, and the row has its old name
C15_Witness ==
  /\ run[1].pc = "failed" /\ run[1].error = "merge_course"
  /\ run[1].matched # {}
  /\ \E s \in run[1].course_rows : \E t \in dimCourse :
       t.canvas_course_id = s.canvas_course_id /\ t.name # s.name

\* ---------------------------------------------------------------- derived flags
\* a timestamp field of a document holds a timestamp
Present(v) == v \notin {NULL, BAD}

\* the on-time flag the document d calls for: 1 true, 0 false, NULL unknown
ExpectedOnTime(d) ==
  CASE Present(d.due_at) /\ Present(d.submitted_at) /\ d.submitted_at <= d.due_at -> 1
    [] Present(d.due_at) /\ Present(d.submitted_at) /\ ~(d.submitted_at <= d.due_at) -> 0
    [] ~(Present(d.due_at) /\ Present(d.submitted_at))
       /\ (d.late = "true" \/ d.missing = "true") -> 0
    [] OTHER -> NULL

\* C16: the on_time_flag of every row read and of every row stored is 1
\* exactly when both timestamps are present and submitted_at <= due_at, 0 when
\* both are present otherwise or when late or missing is true, and null in
\* every other case
C16_OnTimeFlag ==
  /\ \A p \in Procs : \A s \in run[p].sub_rows :
       s.on_time_flag = ExpectedOnTime(rawSubs[s.canvas_submission_id].raw_payload)
  /\ \A f \in fact :
       f.on_time_flag = ExpectedOnTime(rawSubs[f.canvas_submission_id].raw_payload)

\* a stored row is unknown for a submission without due date that is marked
\* neither late nor missing
C16_Witness ==
  \E f \in fact :
    LET d == rawSubs[f.canvas_submission_id].raw_payload
    IN /\ f.on_time_flag = NULL
       /\ d.due_at = NULL /\ Present(d.submitted_at)
       /\ d.late = "false" /\ d.missing = "none"

\* the tri-state of a source value
ExpectedTriState(v) ==
  CASE v = "true" -> 1
    [] v = "false" -> 0
    [] OTHER -> NULL

\* C17: late_flag and missing_flag of every stored row are 1 for true, 0 for
\* false and null for any other source value
C17_TriState ==
  \A f \in fact :
    LET d == rawSubs[f.canvas_submission_id].raw_payload
    IN /\ f.late_flag = ExpectedTriState(d.late)
       /\ f.missing_flag = ExpectedTriState(d.missing)
       /\ (f.late_flag = 0 => d.late = "false")
       /\ (f.missing_flag = 0 => d.missing = "false")

\* a stored row with late unknown for a value that is no boolean, and missing
\* false
C17_Witness ==
  \E f \in fact :
    LET d == rawSubs[f.canvas_submission_id].raw_payload
    IN d.late = "other" /\ f.late_flag = NULL /\ d.missing = "false" /\ f.missing_flag = 0

\* ---------------------------------------------------------------- bad records
\* the submission record id can be turned into a row
Readable(id) ==
  rawSubs[id].raw_payload.kind = "dict" /\ ~Raises(rawSubs[id].raw_payload)

\* the course record id can be turned into a row
ReadableCourse(id) ==
  /\ rawCourses[id].raw_payload.kind = "dict"
  /\ rawCourses[id].raw_payload.account_id # BAD

\* C18: no read of submissions or courses makes the run fail, and each read
\* emits a row for every record read that can be turned into one
C18_BadRecordSkipped ==
  [][\A p \in Procs :
       /\ (run[p].pc = "read_subs" /\ run'[p].pc # "read_subs") =>
            /\ run'[p].pc # "failed"
            /\ \A id \in run'[p].sub_read : Readable(id) =>
                 \E s \in run'[p].sub_rows : s.canvas_submission_id = id
       /\ (run[p].pc = "read_courses" /\ run'[p].pc # "read_courses") =>
            /\ run'[p].pc # "failed"
            /\ \A id \in run'[p].course_read : ReadableCourse(id) =>
                 \E s \in run'[p].course_rows : s.canvas_course_id = id]_vars

\* ---------------------------------------------------------------- stale students
\* C20: a student row is changed or removed only by the student merge of a
\* run whose identity-map batch holds its natural key
C20_StaleUntouched ==
  [][\A t \in dimStudent :
       t \notin dimStudent' =>
         \E p \in Procs :
           /\ run[p].pc = "apply_merge_student"
           /\ \E s \in run[p].student_rows : s.canvas_user_id = t.canvas_user_id]_vars

\* the steps of a run after its student merge has committed
AfterStudentMerge ==
  {"student_keys", "read_courses", "merge_course", "apply_merge_course", "course_keys",
   "read_subs", "merge_fact", "apply_merge_fact", "watermark", "insert_watermark", "done"}

\* the student merge of run p has just committed after that of run q: a row
\* both runs read carries the stamp of p and not that of q, and the row of a
\* natural key that only q read, absent from the identity map as p read it,
\* is as q inserted it
C20_Witness ==
  \E p \in Procs : \E q \in Procs \ {p} :
    /\ run[p].pc = "student_keys"
    /\ run[q].pc \in AfterStudentMerge
    /\ \E t \in dimStudent :
         /\ \E s \in run[p].student_rows :
              s.canvas_user_id = t.canvas_user_id /\ s.updated_at = t.updated_at
         /\ \E s \in run[q].student_rows :
              s.canvas_user_id = t.canvas_user_id /\ s.updated_at # t.updated_at
    /\ \E t \in dimStudent :
         /\ \A s \in run[p].student_rows : s.canvas_user_id # t.canvas_user_id
         /\ \E s \in run[q].student_rows : s.canvas_user_id = t.canvas_user_id
         /\ t \in bornStudent

\* ---------------------------------------------------------------- run metadata
\* the rows of meta.job_run written for runs of build_curated.py
PipelineJobRuns == {r \in jobRun : r.job_name = "build_curated"}

\* the row of meta.job_run is final: it has an end time and a duration
Final(r) == r.end_time # NULL /\ r.duration_ms # NULL

\* C21: every run of build_curated.py and of run_checks.py has its row in
\* meta.job_run, running while the run is under way and success or failed, with
\* an end time and a duration, once it has ended; a failed job keeps its reason
\* and the counts gathered so far while its check results are rolled back
C21_RunMetadata ==
  /\ Cardinality(PipelineJobRuns) = nRuns
  /\ \A p \in Procs :
       /\ run[p].pc = "done" =>
            \E r \in PipelineJobRuns : r.status = "success" /\ Final(r)
       /\ run[p].pc = "failed" =>
            \E r \in PipelineJobRuns :
              r.status = "failed" /\ Final(r) /\ r.error_message # NULL
  /\ job.pc # "idle" =>
       \E r \in jobRun :
         /\ r.job_run_id = job.job_run_id
         /\ job.pc = "checks" => r.status = "running"
         /\ job.pc = "done" =>
              r.status = "success" /\ Final(r) /\ r.records_written = NumChecks
         /\ job.pc = "raised" =>
              /\ r.status = "failed" /\ Final(r) /\ r.error_message # NULL
              /\ r.metrics_json = job.checks_total
              /\ \A d \in dqResult : d.job_run_id # r.job_run_id

\* ---------------------------------------------------------------- loader watermark
\* the timestamp the line holds, if it holds one
Stamp(line) ==
  IF line.updated \in Times THEN line.updated
  ELSE IF line.updated \in {Aware(t) : t \in Times} THEN line.updated - TZ
  ELSE NULL

\* the stamps of the lines of the file that were written
WrittenStamps == {Stamp(ld.file[i]) : i \in ld.written} \ {NULL}

\* C22: with --incremental and a stored watermark L, a line whose updated_at is
\* present and <= L is not written, every other valid line is upserted by id,
\* and after the file the watermark is the largest updated_at of the lines
\* written, or what it was when no line written holds one
C22_LoaderIncremental ==
  [][/\ (ld.pc = "lines" /\ ld.incremental /\ ld'.line_no = ld.line_no + 1) =>
          LET line == ld.file[ld'.line_no]
          IN IF line.valid /\ ld.wm_before # NULL /\ Stamp(line) # NULL
                /\ Stamp(line) <= ld.wm_before
             THEN ld'.table = ld.table /\ ld'.written = ld.written
             ELSE line.valid =>
                    /\ ld'.line_no \in ld'.written
                    /\ line.id \in DOMAIN ld'.table
                    /\ ld'.table[line.id].raw_payload = line
                    /\ ld'.table[line.id].updated_at = Stamp(line)
                    /\ \A id \in DOMAIN ld.table :
                         id # line.id => ld'.table[id] = ld.table[id]
     /\ (ld.pc = "lines" /\ ld.incremental /\ ld'.pc = "done") =>
          ld'.wm = IF WrittenStamps = {} THEN ld.wm_before ELSE Max(WrittenStamps)]_vars

\* an incremental load over a stored watermark has skipped a line, written a
\* line without a timestamp and advanced the watermark
C22_Witness ==
  /\ ld.pc = "done" /\ ld.incremental /\ ld.wm_before # NULL
  /\ ld.skipped # {}
  /\ \E i \in ld.written : Stamp(ld.file[i]) = NULL
  /\ ld.wm > ld.wm_before

\* ---------------------------------------------------------------- keys of the same run
\* the run p has read the submissions and not ended
FactPhase(p) ==
  run[p].pc \in {"merge_fact", "apply_merge_fact", "watermark", "insert_watermark"}

\* C23: a submission row that refers to a user or a course whose dimension row
\* the same run merged carries the surrogate key of that dimension row
C23_SameRunKeys ==
  \A p \in Procs : FactPhase(p) =>
    \A s \in run[p].sub_rows :
      /\ (\E x \in run[p].student_rows : x.canvas_user_id = s.canvas_user_id) =>
           \E t \in dimStudent :
             /\ t.canvas_user_id = s.canvas_user_id
             /\ s.gies_person_id = t.gies_person_id /\ s.gies_person_id # NULL
      /\ (\E x \in run[p].course_rows : x.canvas_course_id = s.canvas_course_id) =>
           \E t \in dimCourse :
             /\ t.canvas_course_id = s.canvas_course_id
             /\ s.course_key = t.course_key /\ s.course_key # NULL

\* the first run over the database inserted a student and a course and emits
\* a submission that refers to both
C23_Witness ==
  /\ nRuns = 1 /\ run[1].pc = "merge_fact"
  /\ \E s \in run[1].sub_rows :
       /\ \E x \in run[1].student_rows : x.canvas_user_id = s.canvas_user_id
       /\ \E x \in run[1].course_rows : x.canvas_course_id = s.canvas_course_id
       /\ s.gies_person_id # NULL /\ s.course_key # NULL

\* ---------------------------------------------------------------- override
\* the value stored for raw.canvas_submissions, NULL without a row
StoredAnchor ==
  IF "raw.canvas_submissions" \in DOMAIN watermark
  THEN watermark["raw.canvas_submissions"] ELSE NULL

\* the lower bound the reads of p are to use
LowerBound(p) == IF run[p].override # NULL THEN run[p].override ELSE StoredAnchor

\* C24: the course read and the submission read of a run started with an
\* override return the records ingested at or after the override, whatever is
\* stored; those of a run started without one return the records ingested at
\* or after the value stored for raw.canvas_submissions
C24_OverrideBound ==
  [][\A p \in Procs :
       /\ (run[p].pc = "read_courses" /\ run'[p].pc # "read_courses") =>
            run'[p].course_read = IngestedSince(rawCourses, LowerBound(p))
       /\ (run[p].pc = "read_subs" /\ run'[p].pc # "read_subs") =>
            run'[p].sub_read = IngestedSince(rawSubs, LowerBound(p))]_vars

\* a run started with an override earlier than the stored value has read a
\* course and a submission ingested before the stored value
C24_Witness ==
  /\ run[1].pc = "merge_fact"
  /\ run[1].override # NULL /\ StoredAnchor # NULL /\ run[1].override < StoredAnchor
  /\ \E id \in run[1].course_read : rawCourses[id].ingested_at < StoredAnchor
  /\ \E id \in run[1].sub_read : rawSubs[id].ingested_at < StoredAnchor

\* ---------------------------------------------------------------- staging
\* the natural keys of a set of student, course or submission rows
UserKeys(rows) == {r.canvas_user_id : r \in rows}
CourseKeys(rows) == {r.canvas_course_id : r \in rows}
SubKeys(rows) == {r.canvas_submission_id : r \in rows}

\* C25: each merge matches and reconciles the batch it was passed and no other
\* row: it is skipped only for an empty batch, the keys it matches are those
\* of its batch that the target holds, and when it has committed the target
\* holds a row with the values of every row of the batch while every other
\* row of the target is as it was
C25_StagingTransient ==
  [][\A p \in Procs :
       /\ (run[p].pc = "merge_student" /\ run'[p].pc = "apply_merge_student") =>
            run'[p].matched = UserKeys(run[p].student_rows) \cap UserKeys(dimStudent)
       /\ (run[p].pc = "merge_student" /\ run'[p].pc = "student_keys") =>
            run[p].student_rows = {}
       /\ (run[p].pc = "apply_merge_student" /\ run'[p].pc = "student_keys") =>
            /\ UserKeys(dimStudent') = UserKeys(dimStudent) \cup UserKeys(run[p].student_rows)
            /\ \A s \in run[p].student_rows : \E t \in dimStudent' :
                 /\ t.canvas_user_id = s.canvas_user_id
                 /\ t.email_normalized = s.email_normalized
                 /\ t.updated_at = s.updated_at
            /\ \A t \in dimStudent :
                 t.canvas_user_id \notin UserKeys(run[p].student_rows) => t \in dimStudent'
       /\ (run[p].pc = "merge_course" /\ run'[p].pc = "apply_merge_course") =>
            run'[p].matched = CourseKeys(run[p].course_rows) \cap CourseKeys(dimCourse)
       /\ (run[p].pc = "merge_course" /\ run'[p].pc = "course_keys") =>
            run[p].course_rows = {}
       /\ (run[p].pc = "apply_merge_course" /\ run'[p].pc = "course_keys") =>
            /\ CourseKeys(dimCourse') = CourseKeys(dimCourse) \cup CourseKeys(run[p].course_rows)
            /\ \A s \in run[p].course_rows : \E t \in dimCourse' :
                 /\ t.canvas_course_id = s.canvas_course_id
                 /\ t.name = s.name
                 /\ t.updated_at = s.updated_at
            /\ \A t \in dimCourse :
                 t.canvas_course_id \notin CourseKeys(run[p].course_rows) => t \in dimCourse'
       /\ (run[p].pc = "merge_fact" /\ run'[p].pc = "apply_merge_fact") =>
            run'[p].matched = SubKeys(run[p].sub_rows) \cap SubKeys(fact)
       /\ (run[p].pc = "merge_fact" /\ run'[p].pc = "watermark") =>
            run[p].sub_rows = {}
       /\ (run[p].pc = "apply_merge_fact" /\ run'[p].pc = "watermark") =>
            fact' = {t \in fact : t.canvas_submission_id \notin SubKeys(run[p].sub_rows)}
                      \cup run[p].sub_rows]_vars

\* the course merge of one run has reconciled its batch while the other run
\* had a different batch staged for the same merge
C25_Witness ==
  /\ run[1].pc = "read_subs" /\ run[2].pc = "merge_course"
  /\ run[1].course_rows # {} /\ run[2].course_rows # {}
  /\ CourseKeys(run[1].course_rows) # CourseKeys(run[2].course_rows)
  /\ CourseKeys(dimCourse) = CourseKeys(run[1].course_rows)

\* ---------------------------------------------------------------- convergence
\* a run started after the inputs last changed has ended without error and no
\* run is under way
Settled ==
  /\ \A p \in Procs : run[p].pc \in {"idle", "done", "failed"}
  /\ runsSince >= 1 /\ last.ended /\ last.error = "none"

\* C26: once ingestion has stopped and one more run has completed, every raw
\* course that is a document has a row in cur.dim_course and every raw
\* submission that can be turned into a row has one in cur.fact_submission,
\* also when records were ingested while a run was under way
C26_NothingLost ==
  Settled =>
    /\ \A id \in DOMAIN rawCourses :
         ReadableCourse(id) =>
           \E t \in dimCourse : t.canvas_course_id = id
    /\ \A id \in DOMAIN rawSubs :
         Readable(id) => \E f \in fact : f.canvas_submission_id = id

\* ---------------------------------------------------------------- overlapping runs
\* the ingested_at values of the records the run p read
ReadStamps(p) ==
  {rawCourses[id].ingested_at : id \in run[p].course_read}
    \cup {rawSubs[id].ingested_at : id \in run[p].sub_read}

\* C27: when two overlapping runs have both finished, both have finished
\* without error and the value stored for each source is not lower than the
\* value either of them wrote, the latest ingested_at it read
C27_OverlapWatermark ==
  (\A p \in Procs : run[p].pc \in {"done", "failed"}) =>
    \A p \in Procs :
      /\ run[p].pc = "done"
      /\ \A src \in WatermarkSources : \A t \in ReadStamps(p) :
           src \in DOMAIN watermark /\ watermark[src] >= t

\* ---------------------------------------------------------------- referential consistency
\* C28: a fact row that has a student (course) surrogate key and a natural
\* user (course) key refers to a dimension row that exists and has that
\* natural key
C28_ResolvedKeysConsistent ==
  \A f \in fact :
    /\ (f.gies_person_id # NULL /\ f.canvas_user_id # NULL) =>
         \E d \in dimStudent :
           d.gies_person_id = f.gies_person_id /\ d.canvas_user_id = f.canvas_user_id
    /\ (f.course_key # NULL /\ f.canvas_course_id # NULL) =>
         \E d \in dimCourse :
           d.course_key = f.course_key /\ d.canvas_course_id = f.canvas_course_id

\* the fact table holds a row with both surrogate keys resolved
C28_Witness ==
  \E f \in fact :
    /\ f.gies_person_id # NULL /\ f.canvas_user_id # NULL
    /\ f.course_key # NULL /\ f.canvas_course_id # NULL

\* ---------------------------------------------------------------- late dimension rows
\* two runs started after the inputs last changed have ended, the last one
\* without error, and no run is under way
SettledTwice == Settled /\ runsSince >= 2

\* C29: once the dimension row of a natural key exists and further runs have
\* completed with no new raw submission, every fact row with that natural key
\* carries the surrogate key of the dimension row
C29_OrphansResolved ==
  SettledTwice =>
    \A f \in fact :
      /\ \A d \in dimStudent :
           d.canvas_user_id = f.canvas_user_id => f.gies_person_id = d.gies_person_id
      /\ \A d \in dimCourse :
           d.canvas_course_id = f.canvas_course_id => f.course_key = d.course_key

\* ---------------------------------------------------------------- re-ingestion
\* C30: once a run started after the loader last wrote has completed, the
\* curated row of every raw course and of every raw submission shows the
\* payload the raw record holds now
C30_ReingestPropagates ==
  Settled =>
    /\ \A id \in DOMAIN rawCourses :
         ReadableCourse(id) =>
           \E d \in dimCourse :
             d.canvas_course_id = id /\ d.name = rawCourses[id].raw_payload.name
    /\ \A id \in DOMAIN rawSubs :
         Readable(id) =>
           \E f \in fact :
             /\ f.canvas_submission_id = id
             /\ f.canvas_user_id = rawSubs[id].raw_payload.user_id
             /\ f.canvas_course_id = rawSubs[id].raw_payload.course_id

====
